---------------------------- MODULE Spec2Model ----------------------------
(***************************************************************************)
(* A model of the html-wysiwyg-editor core: the DOMPurify based sanitizer  *)
(* (utils/sanitize.ts), the debounced undo/redo history (hooks/useHistory) *)
(* and the WysiwygEditor controller that reconciles the host's html prop   *)
(* with the editable DOM and emits sanitized HTML on a debounce.           *)
(*                                                                         *)
(* HTML is modelled as a sequence of top-level nodes.  A node is a record  *)
(* [tag, attrs, body]: attrs is a set of [name, value] records and body    *)
(* tells what the element holds ("text", "empty", "ws" for white space     *)
(* only, "void" for elements without content).  A white-space text node    *)
(* between elements is the node Ws.  Two HTML strings are equal exactly    *)
(* when the sequences are equal.                                           *)
(***************************************************************************)
EXTENDS Integers, Sequences, FiniteSets, TLC

VARIABLES
    \* --- sanitizer pipeline (pure functions applied to a drawn input)
    sIn,        \* the HTML string handed to the sanitizer
    sDom,       \* sanitizeHtml(sIn): what reconciliation writes into the DOM
    sOut,       \* sanitizeForOutput(...): what an emission hands to the host
    sOut2,      \* sanitizeForOutput applied to sOut once more
    sPc,        \* position in the pipeline
    \* --- useHistory
    undoStack,        \* undoStack.current, oldest first
    redoStack,        \* redoStack.current, the next redo last
    currentValue,     \* currentValue.current
    lastPushedValue,  \* lastPushedValue.current: the committed value
    historyTimer,     \* the pending setTimeout of pushToHistory
    \* --- observers of the history (what a test of useHistory would note)
    lastReturn, \* what the latest undo()/redo() returned, forgotten at the
                \* next call of another kind
    burst,      \* the current burst of pushToHistory calls and its outcome
    law,        \* progress through record^k, undo^(k-1), redo^(k-1)
    afterUndo,  \* progress through undo, record and commit, redo
    \* --- WysiwygEditor and its host
    html,             \* the html prop of the current render
    dom,              \* editorRef.current.innerHTML
    isInternalChange, \* isInternalChange.current
    isHistoryChange,  \* isHistoryChange.current
    emitTimer,        \* the pending setTimeout of emitChange
    hostQueue,        \* values passed to onChange the host has yet to apply
    hostMode,         \* "sync": the host applies a value at once; "late"
    selectedMedia,    \* the selectedMedia state: the element it refers to
    focused,          \* editorRef.current.contains(document.activeElement)
    isMac,            \* navigator.platform names an Apple platform
    \* --- observers of the editor
    lastOnChange,     \* the onChange call of this step: its origin, its
                      \* value, the time since the call before it and
                      \* since the debounced emission before it
    sinceOnChange,    \* time since the most recent onChange call
    sinceTimerEmit,   \* time since the most recent debounced emission
    lastEffect,       \* what the reconcile effect did, if it ran in this step
    lastAct,          \* the key event or command of this step and the
                      \* handlers it invoked
    propOrigin,       \* who set the html prop last: the first render, an
                      \* onChange call or the host of its own accord
    undoWhilePending, \* the latest undo/redo ran while an emission was
                      \* pending, and that emission has not fired yet
    gestures,         \* clicks, key events and focus changes so far
    showWarning,      \* the showWarning state: the advisory banner is shown
    warningTimers,    \* the pending setTimeout(() => setShowWarning(false))
                      \* calls: how many there are (they fire in the order
                      \* in which they were set)
    \* --- teardown and the upload of the media toolbar
    mounted,          \* the editor is mounted (editorRef.current is set)
    isUploading,      \* MediaToolbar's isUploading state
    showAssetPicker,  \* MediaToolbar's showAssetPicker state
    upload,           \* the onUpload promise that has not settled, with
                      \* the element its handleFileChange will replace
    \* --- useDragAndDrop
    dragState,      \* the dragState state of the hook
    dragGhost,      \* dragGhostRef.current is set: the ghost is in the page
    dragListeners,  \* mousemove and mouseup listeners are on the document
    lastDrag,       \* the pointer event of the last step and what its
                    \* handler did
    \* --- setFontSize (applied to a drawn request)
    fsIn,       \* the requested size and the selection it is applied to
    fsOut,      \* what setFontSize did to the selection
    fsPc        \* "in" before the call, "done" after it, "off" elsewhere

sanVars == <<sIn, sDom, sOut, sOut2, sPc>>

histVars ==
    <<undoStack, redoStack, currentValue, lastPushedValue, historyTimer>>

obsVars == <<lastReturn, burst, law, afterUndo>>

editorVars ==
    <<html, dom, isInternalChange, isHistoryChange, emitTimer, hostQueue,
      hostMode, selectedMedia, focused, isMac>>

editorObsVars ==
    <<lastOnChange, sinceOnChange, sinceTimerEmit, lastEffect, lastAct,
      propOrigin, undoWhilePending, gestures>>

warnVars == <<showWarning, warningTimers>>

fontVars == <<fsIn, fsOut, fsPc>>

uploadVars == <<isUploading, showAssetPicker, upload>>

dragVars == <<dragState, dragGhost, dragListeners, lastDrag>>

\* What the actions of the editor leave alone, but for teardown and
\* upload.
offstage == <<sanVars, fontVars, dragVars, mounted, isUploading>>

\* What the sanitizer pipeline, and the history driven alone, leave alone.
outsideSan ==
    <<histVars, obsVars, editorVars, editorObsVars, warnVars, fontVars,
      dragVars, mounted, uploadVars>>

outsideHist ==
    <<offstage, editorVars, editorObsVars, warnVars, showAssetPicker, upload>>

vars ==
    <<sanVars, histVars, obsVars, editorVars, editorObsVars, warnVars,
      fontVars, dragVars, mounted, uploadVars>>

----------------------------------------------------------------------------
(* Bounds *)

MaxDocLen == 3

\* useHistory's maxHistory option (50 by default); small, so that the
\* eviction of the oldest entry happens.
MaxHistory == 2

\* The longest record sequence the undo/redo law is followed through.
MaxRecorded == 4

\* pushToHistory calls counted within one burst.
MaxBurst == 3

\* Values passed to onChange that the host has not applied yet.
MaxPending == 2

\* Clicks, key events and focus changes followed in one run of the editor
\* with media.
MaxGestures == 4

\* Pending timers of the advisory banner.
MaxWarnings == 2

\* The largest pixel size requested from setFontSize.
MaxFontPx == 50

\* The pointer's clientY ranges over 0..MaxY.
MaxY == 8

----------------------------------------------------------------------------
(* HTML nodes *)

Attr(name, value) == [name |-> name, value |-> value]

Elem(tag, attrs, body) == [tag |-> tag, attrs |-> attrs, body |-> body]

NoAttrs == {}

\* <p>Hi</p>
NodeP == Elem("p", NoAttrs, "text")
\* <p></p>
NodePEmpty == Elem("p", NoAttrs, "empty")
\* <p> </p>
NodePWs == Elem("p", NoAttrs, "ws")
\* <br>
NodeBr == Elem("br", NoAttrs, "void")
\* white space between elements
Ws == Elem("#text", NoAttrs, "ws")
\* <strong>bold</strong>
NodeStrong == Elem("strong", NoAttrs, "text")
\* <script>alert(1)</script>
NodeScript == Elem("script", NoAttrs, "text")
\* <p onclick="alert('clicked')">Hi</p>
NodePOnclick == Elem("p", {Attr("onclick", "alert('clicked')")}, "text")
\* <a href="javascript:alert('xss')">x</a>
NodeAJs == Elem("a", {Attr("href", "javascript:alert('xss')")}, "text")
\* <a href="https://example.com">x</a>
NodeAHttps == Elem("a", {Attr("href", "https://example.com")}, "text")
\* <a href="data:text/html,x">x</a>
NodeADataHtml == Elem("a", {Attr("href", "data:text/html,x")}, "text")
\* <p data-block-id="1">Hi</p>
NodePData == Elem("p", {Attr("data-block-id", "1")}, "text")
\* <iframe src="https://example.com"></iframe>
NodeIframe == Elem("iframe", {Attr("src", "https://example.com")}, "empty")

Nodes ==
    { NodeP, NodePEmpty, NodePWs, NodeBr, Ws, NodeStrong, NodeScript,
      NodePOnclick, NodeAJs, NodeAHttps, NodeADataHtml, NodePData, NodeIframe }

SeqsUpTo(S, n) == UNION { [1..k -> S] : k \in 0..n }

AllDocs == SeqsUpTo(Nodes, MaxDocLen)

----------------------------------------------------------------------------
(* utils/sanitize.ts *)

ALLOWED_TAGS ==
    { "p", "br", "span", "div",
      "strong", "b", "em", "i", "u", "s", "strike", "del", "ins",
      "sub", "sup", "mark",
      "h1", "h2", "h3", "h4", "h5", "h6",
      "ul", "ol", "li",
      "a", "img", "video", "source", "picture", "figure", "figcaption",
      "table", "thead", "tbody", "tfoot", "tr", "th", "td", "caption",
      "colgroup", "col",
      "blockquote", "pre", "code", "hr",
      "link", "script",
      "address", "article", "aside", "details", "summary", "section",
      "nav", "header", "footer", "main" }

ALLOWED_ATTR ==
    { "id", "class", "style", "title", "lang", "dir",
      "href", "target", "rel",
      "src", "alt", "width", "height", "loading", "srcset", "sizes",
      "crossorigin",
      "controls", "autoplay", "loop", "muted", "poster", "preload",
      "colspan", "rowspan", "scope", "headers",
      "type", "integrity", "async", "defer", "charset",
      "data-*" }

\* attr.startsWith('data-')
IsDataAttrName(name) == name \in {"data-*", "data-block-id"}

\* The scheme of the attribute values the model uses ("" for a value that
\* does not start with a scheme).
Scheme(value) ==
    CASE value = "javascript:alert('xss')" -> "javascript"
      [] value = "https://example.com" -> "https"
      [] value = "data:text/html,x" -> "data"
      [] OTHER -> ""

\* ALLOWED_URI_REGEXP of sanitizeHtml:
\* /^(?:(?:https?|data|mailto|tel):|[^a-z]|[a-z+.\-]+(?:[^a-z+.\-:]|$))/i
InputUriOk(value) ==
    Scheme(value) \in {"http", "https", "data", "mailto", "tel", ""}

\* DOMPurify's default URI expression, used by sanitizeForOutput, which
\* passes none: http(s), ftp(s), mailto, tel, callto, sms, cid, xmpp, matrix.
OutputUriOk(value) ==
    Scheme(value) \in {"http", "https", "ftp", "ftps", "mailto", "tel",
                       "callto", "sms", "cid", "xmpp", "matrix", ""}

\* The two DOMPurify configurations of the file.
InputConfig ==
    [ tags |-> ALLOWED_TAGS, attrs |-> ALLOWED_ATTR, dataAttr |-> TRUE,
      uri |-> "input" ]

OutputConfig ==
    [ tags |-> ALLOWED_TAGS,
      attrs |-> { a \in ALLOWED_ATTR : ~IsDataAttrName(a) },
      dataAttr |-> FALSE, uri |-> "output" ]

\* DOMPurify keeps an attribute when ALLOW_DATA_ATTR admits it as a data-
\* attribute, or when it is on the allow-list and its value passes the URI
\* expression of the configuration.
AttrKept(cfg, a) ==
    \/ cfg.dataAttr /\ IsDataAttrName(a.name)
    \/ /\ a.name \in cfg.attrs
       /\ IF cfg.uri = "input" THEN InputUriOk(a.value)
                               ELSE OutputUriOk(a.value)

\* DOMPurify removes an element whose tag is not on the allow-list (the
\* modelled ones hold no content that would be kept) and strips the
\* attributes it does not keep.  Text nodes pass.
RECURSIVE Purify(_, _)
Purify(cfg, doc) ==
    IF doc = <<>> THEN <<>>
    ELSE LET n == Head(doc)
             rest == Purify(cfg, Tail(doc))
         IN  IF n.tag = "#text" THEN <<n>> \o rest
             ELSE IF n.tag \notin cfg.tags THEN rest
             ELSE << [n EXCEPT !.attrs = { a \in n.attrs : AttrKept(cfg, a) }] >>
                  \o rest

\* sanitizeHtml: DOMPurify.sanitize with the input configuration.
sanitizeHtml(htmlText) == Purify(InputConfig, htmlText)

\* .replace(/<p>\s*<\/p>/gi, ''): every attribute-less paragraph that holds
\* nothing or white space only is removed.
IsEmptyParagraph(n) ==
    n.tag = "p" /\ n.attrs = {} /\ n.body \in {"empty", "ws"}

RemoveEmptyParagraphs(doc) == SelectSeq(doc, LAMBDA n : ~IsEmptyParagraph(n))

\* The number of trailing white-space text nodes of doc.
RECURSIVE TrailingWs(_)
TrailingWs(doc) ==
    IF doc = <<>> \/ doc[Len(doc)] # Ws THEN 0
    ELSE 1 + TrailingWs(SubSeq(doc, 1, Len(doc) - 1))

\* .replace(/<br\s*\/?>\s*$/gi, ''): the expression is anchored at the end
\* of the string, so it matches at most once: one <br> followed by white
\* space only up to the end.
RemoveTrailingBr(doc) ==
    LET k == Len(doc) - TrailingWs(doc)
    IN  IF k >= 1 /\ doc[k] = NodeBr THEN SubSeq(doc, 1, k - 1) ELSE doc

\* The number of leading white-space text nodes of doc.
RECURSIVE LeadingWs(_)
LeadingWs(doc) ==
    IF doc = <<>> \/ Head(doc) # Ws THEN 0 ELSE 1 + LeadingWs(Tail(doc))

\* .trim()
Trim(doc) ==
    LET t == TrailingWs(doc)
        l == LeadingWs(doc)
    IN  IF l + t >= Len(doc) THEN <<>> ELSE SubSeq(doc, l + 1, Len(doc) - t)

\* sanitizeForOutput: DOMPurify.sanitize with the output configuration,
\* then the three string operations in the order of the source.
sanitizeForOutput(htmlText) ==
    Trim(RemoveTrailingBr(RemoveEmptyParagraphs(Purify(OutputConfig,
                                                       htmlText))))

\* containsDangerousContent: the expressions /<script\b/i, /<iframe\b/i,
\* /<object\b/i, /<embed\b/i match an element of that tag, /on\w+\s*=/i
\* an attribute whose name starts with "on", /javascript:/i and
\* /data:text\/html/i an attribute value with that start.  (The text of
\* the modelled elements matches none of them.)
containsDangerousContent(htmlText) ==
    \E i \in 1..Len(htmlText) :
        \/ htmlText[i].tag \in {"script", "iframe", "object", "embed"}
        \/ \E a \in htmlText[i].attrs :
               \/ a.name \in {"onclick", "onerror"}
               \/ Scheme(a.value) = "javascript"
               \/ a.value = "data:text/html,x"

----------------------------------------------------------------------------
(* hooks/useHistory *)

\* Debounce delays in units of 100 ms.
HistoryDebounce == 5

\* debounceTimer.current of useHistory when no call-back is pending.
NoTimer == [pending |-> FALSE, left |-> 0, value |-> <<>>]

NoReturn == [kind |-> "none", value |-> <<>>]
ReturnNull == [kind |-> "null", value |-> <<>>]
ReturnValue(v) == [kind |-> "value", value |-> v]

\* useHistory(initialValue): both stacks empty, both value refs the initial
\* value, no timer.
useHistory(initialValue) ==
    /\ undoStack = <<>>
    /\ redoStack = <<>>
    /\ currentValue = initialValue
    /\ lastPushedValue = initialValue
    /\ historyTimer = NoTimer

\* pushToHistory(value): sets currentValue, clears the pending timer and
\* starts a new one that captures value.
pushToHistory(value) ==
    /\ currentValue' = value
    /\ historyTimer' =
           [pending |-> TRUE, left |-> HistoryDebounce, value |-> value]
    /\ UNCHANGED <<undoStack, redoStack, lastPushedValue>>

\* A push that never evicts.
PushLimited_NoShift(stack, v) == Append(stack, v)

\* undoStack.current.push(lastPushedValue.current), then shift() when the
\* stack is longer than maxHistory.
PushLimited(stack, v) ==
    LET pushed == Append(stack, v)
    IN  IF Len(pushed) > MaxHistory THEN Tail(pushed) ELSE pushed

\* A call-back that leaves the redo stack as it is.
HistoryTimerFires_KeepRedo ==
    /\ historyTimer.pending
    /\ historyTimer.left = 0
    /\ historyTimer' = NoTimer
    /\ IF historyTimer.value = lastPushedValue
       THEN UNCHANGED <<undoStack, redoStack, lastPushedValue>>
       ELSE /\ undoStack' = PushLimited(undoStack, lastPushedValue)
            /\ UNCHANGED redoStack
            /\ lastPushedValue' = historyTimer.value
    /\ UNCHANGED currentValue

\* A call-back that does not compare its value with the committed one.
HistoryTimerFires_NoEqualCheck ==
    /\ historyTimer.pending
    /\ historyTimer.left = 0
    /\ historyTimer' = NoTimer
    /\ undoStack' = PushLimited(undoStack, lastPushedValue)
    /\ redoStack' = <<>>
    /\ lastPushedValue' = historyTimer.value
    /\ UNCHANGED currentValue

\* A call-back that pushes the new value instead of the committed one.
HistoryTimerFires_PushNew ==
    /\ historyTimer.pending
    /\ historyTimer.left = 0
    /\ historyTimer' = NoTimer
    /\ IF historyTimer.value = lastPushedValue
       THEN UNCHANGED <<undoStack, redoStack, lastPushedValue>>
       ELSE /\ undoStack' = PushLimited(undoStack, historyTimer.value)
            /\ redoStack' = <<>>
            /\ lastPushedValue' = historyTimer.value
    /\ UNCHANGED currentValue

\* A call-back that clears the redo stack before it compares the values.
HistoryTimerFires_ClearRedo ==
    /\ historyTimer.pending
    /\ historyTimer.left = 0
    /\ historyTimer' = NoTimer
    /\ redoStack' = <<>>
    /\ IF historyTimer.value = lastPushedValue
       THEN UNCHANGED <<undoStack, lastPushedValue>>
       ELSE /\ undoStack' = PushLimited(undoStack, lastPushedValue)
            /\ lastPushedValue' = historyTimer.value
    /\ UNCHANGED currentValue

\* The setTimeout call-back of pushToHistory.
HistoryTimerFires ==
    /\ historyTimer.pending
    /\ historyTimer.left = 0
    /\ historyTimer' = NoTimer
    /\ IF historyTimer.value = lastPushedValue
       THEN UNCHANGED <<undoStack, redoStack, lastPushedValue>>
       ELSE /\ undoStack' = PushLimited(undoStack, lastPushedValue)
            /\ redoStack' = <<>>
            /\ lastPushedValue' = historyTimer.value
    /\ UNCHANGED currentValue

\* What undo() returns: null on an empty stack, else the popped value.
undoResult ==
    IF Len(undoStack) = 0 THEN ReturnNull
    ELSE ReturnValue(undoStack[Len(undoStack)])

\* What redo() returns.
redoResult ==
    IF Len(redoStack) = 0 THEN ReturnNull
    ELSE ReturnValue(redoStack[Len(redoStack)])

\* An undo that forgets to keep the value it leaves for redo.
undo_NoRedoPush ==
    IF Len(undoStack) = 0
    THEN UNCHANGED histVars
    ELSE LET previousValue == undoStack[Len(undoStack)]
         IN  /\ undoStack' = SubSeq(undoStack, 1, Len(undoStack) - 1)
             /\ currentValue' = previousValue
             /\ lastPushedValue' = previousValue
             /\ UNCHANGED <<redoStack, historyTimer>>

\* undo()
undo ==
    IF Len(undoStack) = 0
    THEN UNCHANGED histVars
    ELSE LET previousValue == undoStack[Len(undoStack)]
         IN  /\ undoStack' = SubSeq(undoStack, 1, Len(undoStack) - 1)
             /\ redoStack' = Append(redoStack, lastPushedValue)
             /\ currentValue' = previousValue
             /\ lastPushedValue' = previousValue
             /\ UNCHANGED historyTimer

\* A redo without the early return on an empty stack: it still pushes the
\* committed value onto the undo stack.
redo_NoEmptyCheck ==
    IF Len(redoStack) = 0
    THEN /\ undoStack' = Append(undoStack, lastPushedValue)
         /\ UNCHANGED <<redoStack, currentValue, lastPushedValue,
                        historyTimer>>
    ELSE LET nextValue == redoStack[Len(redoStack)]
         IN  /\ redoStack' = SubSeq(redoStack, 1, Len(redoStack) - 1)
             /\ undoStack' = Append(undoStack, lastPushedValue)
             /\ currentValue' = nextValue
             /\ lastPushedValue' = nextValue
             /\ UNCHANGED historyTimer

\* redo()
redo ==
    IF Len(redoStack) = 0
    THEN UNCHANGED histVars
    ELSE LET nextValue == redoStack[Len(redoStack)]
         IN  /\ redoStack' = SubSeq(redoStack, 1, Len(redoStack) - 1)
             /\ undoStack' = Append(undoStack, lastPushedValue)
             /\ currentValue' = nextValue
             /\ lastPushedValue' = nextValue
             /\ UNCHANGED historyTimer

\* reset(value)
reset(value) ==
    /\ undoStack' = <<>>
    /\ redoStack' = <<>>
    /\ currentValue' = value
    /\ lastPushedValue' = value
    /\ UNCHANGED historyTimer

\* 100 ms pass: a pending timer comes closer to firing; a timer that is
\* due fires before more time passes.
HistoryTimerTicks ==
    /\ historyTimer.pending
    /\ historyTimer.left > 0
    /\ historyTimer' = [historyTimer EXCEPT !.left = @ - 1]
    /\ UNCHANGED <<undoStack, redoStack, currentValue, lastPushedValue>>

----------------------------------------------------------------------------
(* Observers of useHistory: they note what the calls did and never decide  *)
(* what the history does.                                                  *)

Min(a, b) == IF a < b THEN a ELSE b

BurstIdle ==
    [n |-> 0, base |-> <<>>, stack |-> <<>>, pure |-> TRUE, outcome |-> "none"]

LawStart ==
    [phase |-> "record", k |-> 0, undos |-> 0, redos |-> 0, vk |-> <<>>]

LawOff == [phase |-> "off", k |-> 0, undos |-> 0, redos |-> 0, vk |-> <<>>]

\* A burst starts with a pushToHistory call made while no timer is pending
\* and lasts until the timer fires; base is the value committed when it
\* started and stack the undo stack of that moment.
BurstOnPush ==
    burst' =
        IF historyTimer.pending /\ burst.outcome = "open"
        THEN [burst EXCEPT !.n = Min(@ + 1, MaxBurst)]
        ELSE [n |-> 1, base |-> lastPushedValue, stack |-> undoStack,
              pure |-> TRUE, outcome |-> "open"]

BurstOnFire ==
    burst' = [burst EXCEPT !.outcome =
                 IF historyTimer.value = lastPushedValue
                 THEN "skipped" ELSE "pushed"]

\* undo, redo or reset: within a burst they make it impure, after it they
\* close the observation.
BurstOnOther ==
    burst' = IF burst.outcome = "open" THEN [burst EXCEPT !.pure = FALSE]
             ELSE BurstIdle

\* The law's scenario: k values recorded from construction on, each
\* committed by its timer and different from the one committed before it,
\* then undo() k-1 times, then redo() k-1 times, nothing else in between.
LawOnPush ==
    law' = IF law.phase = "record" /\ ~historyTimer.pending /\ law.k < MaxRecorded
           THEN law ELSE LawOff

LawOnFire ==
    law' = IF law.phase = "record" /\ historyTimer.value # lastPushedValue
           THEN [law EXCEPT !.k = @ + 1, !.vk = historyTimer.value]
           ELSE LawOff

LawOnUndo ==
    law' = IF /\ law.phase \in {"record", "undo"}
              /\ law.k >= 2
              /\ ~historyTimer.pending
              /\ law.undos < law.k - 1
           THEN [law EXCEPT !.phase = "undo", !.undos = @ + 1]
           ELSE LawOff

LawOnRedo ==
    law' = IF /\ law.phase \in {"undo", "redo"}
              /\ law.undos = law.k - 1
              /\ law.redos < law.k - 1
           THEN [law EXCEPT !.phase = "redo", !.redos = @ + 1]
           ELSE LawOff

\* undo(), then one pushToHistory of a value that differs from the committed
\* one, then redo(): before the timer of that call has fired ("early") or
\* after it has committed the value.
AfterUndoOnUndo ==
    afterUndo' = IF Len(undoStack) > 0 THEN "undone" ELSE "none"

AfterUndoOnPush(value) ==
    afterUndo' =
        IF afterUndo = "undone" /\ value # lastPushedValue THEN "recorded"
        ELSE IF afterUndo = "committed" THEN "committed"
        ELSE "none"

AfterUndoOnFire ==
    afterUndo' =
        IF afterUndo = "recorded" /\ historyTimer.value # lastPushedValue
        THEN "committed"
        ELSE IF afterUndo \in {"redone", "redoneEarly"} THEN "none"
        ELSE afterUndo

AfterUndoOnRedo ==
    afterUndo' = IF afterUndo = "committed" THEN "redone"
                 ELSE IF afterUndo = "recorded" THEN "redoneEarly"
                 ELSE "none"

----------------------------------------------------------------------------
(* useHistory driven by an arbitrary caller *)

HistValues == { <<NodeP>>, <<NodeStrong>>, <<NodeP, NodeStrong>> }

SanIdle ==
    /\ sIn = <<>>
    /\ sDom = <<>>
    /\ sOut = <<>>
    /\ sOut2 = <<>>
    /\ sPc = "off"

FontIdle ==
    /\ fsIn = [size |-> [numeric |-> FALSE, px |-> 0], selection |-> "collapsed"]
    /\ fsOut = [kind |-> "none", step |-> 0, px |-> 0]
    /\ fsPc = "off"

\* The dragState of the first render, no ghost, no listeners.
DragIdle ==
    /\ dragState = [isDragging |-> FALSE, draggedElement |-> <<>>,
                    dropIndicatorY |-> -1, dropTarget |-> <<>>,
                    dropPosition |-> "none"]
    /\ dragGhost = FALSE
    /\ dragListeners = FALSE
    /\ lastDrag = [kind |-> "none", y |-> -1, ran |-> FALSE, threw |-> FALSE,
                   signalled |-> FALSE, landed |-> <<>>]

HistIdle ==
    /\ useHistory(<<>>)
    /\ lastReturn = NoReturn
    /\ burst = BurstIdle
    /\ law = LawOff
    /\ afterUndo = "none"

EditorIdle ==
    /\ html = <<>>
    /\ dom = <<>>
    /\ isInternalChange = FALSE
    /\ isHistoryChange = FALSE
    /\ emitTimer = [pending |-> FALSE, left |-> 0]
    /\ hostQueue = <<>>
    /\ hostMode = "sync"
    /\ selectedMedia = [index |-> 0, attached |-> FALSE]
    /\ focused = FALSE
    /\ isMac = FALSE
    /\ lastOnChange =
           [kind |-> "none", value |-> <<>>, gap |-> 0, timerGap |-> 0,
            pushed |-> FALSE, replay |-> FALSE]
    /\ sinceOnChange = 0
    /\ sinceTimerEmit = 0
    /\ lastEffect = [origin |-> "none", skipped |-> FALSE, same |-> FALSE,
                     wrote |-> FALSE]
    /\ lastAct = [kind |-> "none", chord |-> "none", focus |-> FALSE,
                  acts |-> <<>>, prevented |-> FALSE]
    /\ propOrigin = "initial"
    /\ undoWhilePending = FALSE
    /\ gestures = 0
    /\ showWarning = FALSE
    /\ warningTimers = 0
    /\ mounted = FALSE
    /\ isUploading = FALSE
    /\ showAssetPicker = FALSE
    /\ upload = [pending |-> FALSE, target |-> [index |-> 0, attached |-> FALSE]]
    /\ DragIdle

HistInit ==
    /\ SanIdle
    /\ FontIdle
    /\ EditorIdle
    /\ \E v \in HistValues : useHistory(v)
    /\ lastReturn = NoReturn
    /\ burst = BurstIdle
    /\ law = LawStart
    /\ afterUndo = "none"

Record ==
    /\ \E v \in HistValues : pushToHistory(v) /\ AfterUndoOnPush(v)
    /\ lastReturn' = NoReturn
    /\ BurstOnPush
    /\ LawOnPush
    /\ UNCHANGED outsideHist

TimerFires ==
    /\ HistoryTimerFires
    /\ lastReturn' = NoReturn
    /\ BurstOnFire
    /\ LawOnFire
    /\ AfterUndoOnFire
    /\ UNCHANGED outsideHist

Undo ==
    /\ undo
    /\ lastReturn' = undoResult
    /\ BurstOnOther
    /\ LawOnUndo
    /\ AfterUndoOnUndo
    /\ UNCHANGED outsideHist

Redo ==
    /\ redo
    /\ lastReturn' = redoResult
    /\ BurstOnOther
    /\ LawOnRedo
    /\ AfterUndoOnRedo
    /\ UNCHANGED outsideHist

Reset ==
    /\ \E v \in HistValues : reset(v)
    /\ lastReturn' = NoReturn
    /\ BurstOnOther
    /\ law' = LawOff
    /\ afterUndo' = "none"
    /\ UNCHANGED outsideHist

Tick ==
    /\ HistoryTimerTicks
    /\ UNCHANGED <<obsVars, outsideHist>>

HistNext ==
    \/ Record
    \/ TimerFires
    \/ Undo
    \/ Redo
    \/ Reset
    \/ Tick

SpecHistory == HistInit /\ [][HistNext]_vars

----------------------------------------------------------------------------
(* The sanitizer pipeline: reconciliation sanitizes the host's HTML for    *)
(* input, an emission sanitizes the DOM for output.                        *)

SanInit ==
    /\ sIn \in AllDocs
    /\ sDom = <<>>
    /\ sOut = <<>>
    /\ sOut2 = <<>>
    /\ sPc = "in"
    /\ FontIdle
    /\ HistIdle
    /\ EditorIdle

\* The reconcile effect writes sanitizeHtml(html) into the DOM.
SanitizeInput ==
    /\ sPc = "in"
    /\ sDom' = sanitizeHtml(sIn)
    /\ sPc' = "dom"
    /\ UNCHANGED <<sIn, sOut, sOut2, outsideSan>>

\* The emission callback runs sanitizeForOutput on the DOM's innerHTML.
SanitizeOutput ==
    /\ sPc = "dom"
    /\ sOut' = sanitizeForOutput(sDom)
    /\ sPc' = "out"
    /\ UNCHANGED <<sIn, sDom, sOut2, outsideSan>>

\* sanitizeForOutput called directly on a string (the exported utility).
SanitizeOutputDirect ==
    /\ sPc = "in"
    /\ sOut' = sanitizeForOutput(sIn)
    /\ sPc' = "direct"
    /\ UNCHANGED <<sIn, sDom, sOut2, outsideSan>>

\* sanitizeForOutput applied to its own result.
SanitizeOutputAgain ==
    /\ sPc \in {"out", "direct"}
    /\ sOut2' = sanitizeForOutput(sOut)
    /\ sPc' = IF sPc = "out" THEN "out2" ELSE "direct2"
    /\ UNCHANGED <<sIn, sDom, sOut, outsideSan>>

SanNext ==
    \/ SanitizeInput
    \/ SanitizeOutput
    \/ SanitizeOutputDirect
    \/ SanitizeOutputAgain

SpecSanitize == SanInit /\ [][SanNext]_vars

----------------------------------------------------------------------------
(* hooks/useTextFormatting: setFontSize *)

\* The sizes of the font picker, in px: step k of execCommand('fontSize')
\* stands for FontScale[k].
FontScale == <<12, 14, 16, 18, 24, 32, 48>>

\* A requested size: n px, or a string parseInt makes NaN of.
FontSizes ==
    { [numeric |-> TRUE, px |-> n] : n \in 1..MaxFontPx }
        \cup { [numeric |-> FALSE, px |-> 0] }

\* The selection the size is applied to: collapsed, one that
\* range.surroundContents can wrap, one that it cannot (it throws).
Selections == {"collapsed", "wrappable", "partial"}

\* The catch branch of setFontSize: sizeNum = parseInt(size), then the
\* chain of <= comparisons, each of which is false for NaN.
FontSizeStep(size) ==
    IF ~size.numeric THEN 7
    ELSE IF size.px <= 12 THEN 1
    ELSE IF size.px <= 14 THEN 2
    ELSE IF size.px <= 16 THEN 3
    ELSE IF size.px <= 18 THEN 4
    ELSE IF size.px <= 24 THEN 5
    ELSE IF size.px <= 32 THEN 6
    ELSE 7

\* setFontSize(size) on a selection: nothing for a collapsed selection, a
\* span with the size around a selection that can be wrapped, the step of
\* the scale through execCommand('fontSize') otherwise.
setFontSize(size, selection) ==
    IF selection = "collapsed" THEN [kind |-> "none", step |-> 0, px |-> 0]
    ELSE IF selection = "wrappable"
    THEN [kind |-> "span", step |-> 0,
          px |-> IF size.numeric THEN size.px ELSE 0]
    ELSE [kind |-> "step", step |-> FontSizeStep(size),
          px |-> FontScale[FontSizeStep(size)]]

FontInit ==
    /\ fsIn \in [size : FontSizes, selection : Selections]
    /\ fsOut = [kind |-> "none", step |-> 0, px |-> 0]
    /\ fsPc = "in"
    /\ SanIdle
    /\ HistIdle
    /\ EditorIdle

SetFontSizeCalled ==
    /\ fsPc = "in"
    /\ fsOut' = setFontSize(fsIn.size, fsIn.selection)
    /\ fsPc' = "done"
    /\ UNCHANGED <<fsIn, sanVars, histVars, obsVars, editorVars,
                   editorObsVars, warnVars, dragVars, mounted, uploadVars>>

\* setFontSize applied to every request.
SpecFontSize == FontInit /\ [][SetFontSizeCalled]_vars

----------------------------------------------------------------------------
(* components/WysiwygEditor and the host that renders it *)

\* debounceMs of the editor (300 ms by default), in units of 100 ms.
EmitDebounce == 3

NoEmitTimer == [pending |-> FALSE, left |-> 0]

NoEffect ==
    [origin |-> "none", skipped |-> FALSE, same |-> FALSE, wrote |-> FALSE]

NoCall ==
    [kind |-> "none", value |-> <<>>, gap |-> 0, timerGap |-> 0,
     pushed |-> FALSE, replay |-> FALSE]

\* No key event and no command in this step.
NoAct ==
    [kind |-> "none", chord |-> "none", focus |-> FALSE, acts |-> <<>>,
     prevented |-> FALSE]

\* selectedMedia === null
NoMedia == [index |-> 0, attached |-> FALSE]

\* An assignment to innerHTML replaces every element of the region: the
\* element selectedMedia refers to, if any, is no longer in the document.
Detached(sel) == IF sel = NoMedia THEN NoMedia
                 ELSE [sel EXCEPT !.attached = FALSE]

\* No upload is under way.
NoUpload == [pending |-> FALSE, target |-> NoMedia]

\* An assignment to innerHTML also takes the element an upload will
\* replace out of the document.
DetachedUpload(u) == [u EXCEPT !.target = Detached(@)]

\* The step is no key event and no click: focus, platform and the asset
\* picker stay as they are.
KeyIdle ==
    /\ lastAct' = NoAct
    /\ UNCHANGED <<focused, isMac, gestures, showAssetPicker>>

GhostIdle == UNCHANGED <<propOrigin, undoWhilePending, warnVars>>

\* The documents the host passes as the html prop of its own accord.
HostDocs == { <<NodeP>>, <<NodePOnclick>> }

\* What the editable region holds after a native edit or a command.
UserDocs == { <<NodeStrong, NodeBr>> }

\* An emitChange whose timer is due at once.
emitChange_NoDelay == emitTimer' = [pending |-> TRUE, left |-> 0]

\* emitChange: clearTimeout of the pending timer, then a new setTimeout of
\* debounceMs.
emitChange == emitTimer' = [pending |-> TRUE, left |-> EmitDebounce]

\* The body of the effect on [html], run with the flag and the editable
\* region as they are when it runs: what the region holds afterwards and
\* what the effect did.
Reconcile(newHtml, internal, domNow) ==
    LET sanitized == sanitizeHtml(newHtml)
        writes == ~internal /\ domNow # sanitized
    IN  [ dom |-> IF writes THEN sanitized ELSE domNow,
          skipped |-> internal,
          same |-> (domNow = sanitized),
          wrote |-> writes ]

\* The render that follows a change of the html prop to newHtml: the effect
\* on [html] runs and clears isInternalChange.
ReconcileEffect(newHtml, origin) ==
    LET r == Reconcile(newHtml, isInternalChange, dom)
    IN  /\ ~isInternalChange /\ containsDangerousContent(newHtml)
            => warningTimers < MaxWarnings
        /\ IF ~isInternalChange /\ containsDangerousContent(newHtml)
           THEN /\ showWarning' = TRUE
                /\ warningTimers' = warningTimers + 1
           ELSE UNCHANGED warnVars
        /\ html' = newHtml
        /\ dom' = r.dom
        /\ isInternalChange' = FALSE
        /\ selectedMedia' = IF r.wrote THEN Detached(selectedMedia)
                                       ELSE selectedMedia
        /\ upload' = IF r.wrote THEN DetachedUpload(upload) ELSE upload
        /\ propOrigin' = IF origin = "external" THEN "external"
                                                ELSE propOrigin
        /\ lastEffect' = [origin |-> origin, skipped |-> r.skipped,
                          same |-> r.same, wrote |-> r.wrote]

\* isInternalChange.current = true, the editable region holding domNow,
\* then onChange(value).  A host like the demo App (onChange={setHtml})
\* renders the editor with the value at once: if it differs from the prop
\* the effect runs, finds the flag set and clears it.  A host that applies
\* the value later keeps it pending.
CallOnChange(value, origin, domNow) ==
    /\ lastOnChange' = [kind |-> origin, value |-> value,
                        gap |-> sinceOnChange, timerGap |-> sinceTimerEmit,
                        pushed |-> (origin = "timer" /\ ~isHistoryChange),
                        replay |-> undoWhilePending]
    /\ propOrigin' = "emitted"
    /\ UNCHANGED warnVars
    /\ sinceOnChange' = 0
    /\ sinceTimerEmit' = IF origin = "timer" THEN 0 ELSE sinceTimerEmit
    /\ IF hostMode = "sync"
       THEN /\ html' = value
            /\ hostQueue' = hostQueue
            /\ IF value # html
               THEN LET r == Reconcile(value, TRUE, domNow)
                    IN  /\ dom' = r.dom
                        /\ isInternalChange' = FALSE
                        /\ lastEffect' = [origin |-> "echo",
                                          skipped |-> r.skipped,
                                          same |-> r.same, wrote |-> r.wrote]
               ELSE /\ dom' = domNow
                    /\ isInternalChange' = TRUE
                    /\ lastEffect' = NoEffect
       ELSE /\ hostQueue' = Append(hostQueue, value)
            /\ html' = html
            /\ dom' = domNow
            /\ isInternalChange' = TRUE
            /\ lastEffect' = NoEffect

\* onChange is not called in this step.
NoOnChange ==
    /\ lastOnChange' = NoCall
    /\ UNCHANGED <<hostQueue, sinceOnChange, sinceTimerEmit>>

\* The state after the first render and its effects: the effect has written
\* the sanitized prop into the empty editable region, useHistory holds the
\* prop as it came.
EditorInitWith(mode, docs, platforms) ==
    /\ SanIdle
    /\ FontIdle
    /\ lastReturn = NoReturn
    /\ burst = BurstIdle
    /\ law = LawOff
    /\ afterUndo = "none"
    /\ hostMode = mode
    /\ html \in docs
    /\ selectedMedia = NoMedia
    /\ focused = FALSE
    /\ isMac \in platforms
    /\ lastAct = NoAct
    /\ propOrigin = "initial"
    /\ undoWhilePending = FALSE
    /\ gestures = 0
    /\ mounted = TRUE
    /\ isUploading = FALSE
    /\ showAssetPicker = FALSE
    /\ upload = NoUpload
    /\ DragIdle
    /\ showWarning = containsDangerousContent(html)
    /\ warningTimers = IF containsDangerousContent(html) THEN 1 ELSE 0
    /\ dom = sanitizeHtml(html)
    /\ isInternalChange = FALSE
    /\ isHistoryChange = FALSE
    /\ emitTimer = NoEmitTimer
    /\ hostQueue = <<>>
    /\ useHistory(html)
    /\ lastOnChange = NoCall
    /\ sinceOnChange = EmitDebounce
    /\ sinceTimerEmit = EmitDebounce
    /\ lastEffect = NoEffect

EditorInit(mode) == EditorInitWith(mode, HostDocs, {FALSE})

\* handleInput, and every command that mutates the editable region and
\* then signals onContentChange: the region holds d (which may be what it
\* held before: text typed and deleted, a command without effect) and
\* emitChange is called.
handleInput ==
    /\ mounted
    /\ \E d \in UserDocs \cup {dom} : dom' = d
    /\ emitChange
    /\ lastEffect' = NoEffect
    /\ NoOnChange
    /\ GhostIdle
    /\ KeyIdle
    /\ UNCHANGED <<html, isInternalChange, isHistoryChange, hostMode,
                   selectedMedia, upload>>
    /\ UNCHANGED <<offstage, histVars, obsVars>>

\* A call-back of emitChange that runs again after every debounceMs.
EmitTimerFires_Repeats ==
    /\ emitTimer.pending
    /\ emitTimer.left = 0
    /\ mounted => Len(hostQueue) < MaxPending
    /\ emitTimer' = [pending |-> TRUE, left |-> EmitDebounce]
    /\ IF mounted
       THEN LET cleanHtml == sanitizeForOutput(dom)
            IN  /\ IF ~isHistoryChange THEN pushToHistory(cleanHtml)
                                       ELSE UNCHANGED histVars
                /\ isHistoryChange' = FALSE
                /\ CallOnChange(cleanHtml, "timer", dom)
                /\ undoWhilePending' = FALSE
       ELSE /\ NoOnChange
            /\ lastEffect' = NoEffect
            /\ GhostIdle
            /\ UNCHANGED <<html, dom, isInternalChange, isHistoryChange>>
            /\ UNCHANGED histVars
    /\ KeyIdle
    /\ UNCHANGED <<hostMode, selectedMedia, upload>>
    /\ UNCHANGED <<offstage, obsVars>>

\* The setTimeout call-back of emitChange.  After teardown
\* editorRef.current is null and the call-back does nothing.
EmitTimerFires ==
    /\ emitTimer.pending
    /\ emitTimer.left = 0
    /\ mounted => Len(hostQueue) < MaxPending
    /\ emitTimer' = NoEmitTimer
    /\ IF mounted
       THEN LET cleanHtml == sanitizeForOutput(dom)
            IN  /\ IF ~isHistoryChange THEN pushToHistory(cleanHtml)
                                       ELSE UNCHANGED histVars
                /\ isHistoryChange' = FALSE
                /\ CallOnChange(cleanHtml, "timer", dom)
                /\ undoWhilePending' = FALSE
       ELSE /\ NoOnChange
            /\ lastEffect' = NoEffect
            /\ GhostIdle
            /\ UNCHANGED <<html, dom, isInternalChange, isHistoryChange>>
            /\ UNCHANGED histVars
    /\ KeyIdle
    /\ UNCHANGED <<hostMode, selectedMedia, upload>>
    /\ UNCHANGED <<offstage, obsVars>>

\* A handleUndo that hands the host the sanitized snapshot.
handleUndo_Sanitized ==
    /\ Len(undoStack) = 0 \/ Len(hostQueue) < MaxPending
    /\ undo
    /\ IF undoResult # ReturnNull
       THEN LET previousHtml == undoResult.value
            IN  /\ isHistoryChange' = TRUE
                /\ CallOnChange(sanitizeHtml(previousHtml), "undo",
                                sanitizeHtml(previousHtml))
                /\ selectedMedia' = Detached(selectedMedia)
                /\ upload' = DetachedUpload(upload)
                /\ undoWhilePending' = emitTimer.pending
       ELSE /\ NoOnChange
            /\ lastEffect' = NoEffect
            /\ UNCHANGED <<html, isHistoryChange, isInternalChange, dom,
                           selectedMedia, upload, propOrigin,
                           undoWhilePending, warnVars>>
    /\ UNCHANGED <<emitTimer, hostMode>>
    /\ UNCHANGED <<offstage, obsVars>>

\* handleUndo, whoever invokes it (the key handler or the Undo button).
handleUndo ==
    /\ Len(undoStack) = 0 \/ Len(hostQueue) < MaxPending
    /\ undo
    /\ IF undoResult # ReturnNull
       THEN LET previousHtml == undoResult.value
            IN  /\ isHistoryChange' = TRUE
                /\ CallOnChange(previousHtml, "undo",
                                sanitizeHtml(previousHtml))
                /\ selectedMedia' = Detached(selectedMedia)
                /\ upload' = DetachedUpload(upload)
                /\ undoWhilePending' = emitTimer.pending
       ELSE /\ NoOnChange
            /\ lastEffect' = NoEffect
            /\ UNCHANGED <<html, isHistoryChange, isInternalChange, dom,
                           selectedMedia, upload, propOrigin,
                           undoWhilePending, warnVars>>
    /\ UNCHANGED <<emitTimer, hostMode>>
    /\ UNCHANGED <<offstage, obsVars>>

\* handleUndo invoked otherwise than by a key event of the model.
UndoInvoked == mounted /\ handleUndo /\ KeyIdle

\* handleRedo, whoever invokes it.
handleRedo ==
    /\ Len(redoStack) = 0 \/ Len(hostQueue) < MaxPending
    /\ redo
    /\ IF redoResult # ReturnNull
       THEN LET nextHtml == redoResult.value
            IN  /\ isHistoryChange' = TRUE
                /\ CallOnChange(nextHtml, "redo", sanitizeHtml(nextHtml))
                /\ selectedMedia' = Detached(selectedMedia)
                /\ upload' = DetachedUpload(upload)
                /\ undoWhilePending' = emitTimer.pending
       ELSE /\ NoOnChange
            /\ lastEffect' = NoEffect
            /\ UNCHANGED <<html, isHistoryChange, isInternalChange, dom,
                           selectedMedia, upload, propOrigin,
                           undoWhilePending, warnVars>>
    /\ UNCHANGED <<emitTimer, hostMode>>
    /\ UNCHANGED <<offstage, obsVars>>

RedoInvoked == mounted /\ handleRedo /\ KeyIdle

\* The history's timer fires inside the editor.
HistoryCommits ==
    /\ HistoryTimerFires
    /\ lastEffect' = NoEffect
    /\ NoOnChange
    /\ GhostIdle
    /\ KeyIdle
    /\ UNCHANGED <<html, dom, isInternalChange, isHistoryChange, emitTimer,
                   hostMode, selectedMedia, upload>>
    /\ UNCHANGED <<offstage, obsVars>>

\* A host that applies values later renders the editor with the oldest
\* value it received through onChange and has not applied yet.  The effect
\* runs only if the prop differs from that of the previous render.
HostApplies ==
    /\ mounted
    /\ hostQueue # <<>>
    /\ hostQueue' = Tail(hostQueue)
    /\ lastOnChange' = NoCall
    /\ IF Head(hostQueue) # html
       THEN ReconcileEffect(Head(hostQueue), "echo")
       ELSE /\ lastEffect' = NoEffect
            /\ UNCHANGED <<html, dom, isInternalChange, selectedMedia,
                           upload, propOrigin, warnVars>>
    /\ KeyIdle
    /\ UNCHANGED <<isHistoryChange, emitTimer, sinceOnChange, sinceTimerEmit,
                   hostMode, undoWhilePending>>
    /\ UNCHANGED <<offstage, histVars, obsVars>>

\* The host replaces the document of its own accord, at a moment when it
\* has applied every value the editor emitted.
HostSetsHtml ==
    /\ mounted
    /\ hostQueue = <<>>
    /\ \E h \in HostDocs \ {html} : ReconcileEffect(h, "external")
    /\ NoOnChange
    /\ KeyIdle
    /\ UNCHANGED <<isHistoryChange, emitTimer, hostMode, undoWhilePending>>
    /\ UNCHANGED <<offstage, histVars, obsVars>>

\* The call-back of a banner timer, 3000 ms after the effect set it:
\* setShowWarning(false).  The 3 s are long against the 100 ms the clock of
\* the model counts in; the timers are kept in the order of their firing.
WarningTimerFires ==
    /\ warningTimers > 0
    /\ warningTimers' = warningTimers - 1
    /\ showWarning' = FALSE
    /\ lastEffect' = NoEffect
    /\ NoOnChange
    /\ KeyIdle
    /\ UNCHANGED <<propOrigin, undoWhilePending>>
    /\ UNCHANGED <<html, dom, isInternalChange, isHistoryChange, emitTimer,
                   hostMode, selectedMedia, upload>>
    /\ UNCHANGED <<offstage, histVars, obsVars>>

TimerTicks(t) == IF t.pending THEN [t EXCEPT !.left = @ - 1] ELSE t

\* 100 ms pass.  A timer that is due fires before more time passes.
ClockTicks ==
    /\ ~(emitTimer.pending /\ emitTimer.left = 0)
    /\ ~(historyTimer.pending /\ historyTimer.left = 0)
    /\ \/ emitTimer.pending
       \/ historyTimer.pending
       \/ sinceOnChange < EmitDebounce
       \/ sinceTimerEmit < EmitDebounce
    /\ emitTimer' = TimerTicks(emitTimer)
    /\ historyTimer' = TimerTicks(historyTimer)
    /\ sinceOnChange' = Min(sinceOnChange + 1, EmitDebounce)
    /\ sinceTimerEmit' = Min(sinceTimerEmit + 1, EmitDebounce)
    /\ lastEffect' = NoEffect
    /\ lastOnChange' = NoCall
    /\ GhostIdle
    /\ KeyIdle
    /\ UNCHANGED <<undoStack, redoStack, currentValue, lastPushedValue>>
    /\ UNCHANGED <<html, dom, isInternalChange, isHistoryChange, hostQueue,
                   hostMode, selectedMedia, upload>>
    /\ UNCHANGED <<offstage, obsVars>>

EditorNext ==
    \/ handleInput
    \/ EmitTimerFires
    \/ UndoInvoked
    \/ RedoInvoked
    \/ HistoryCommits
    \/ HostSetsHtml
    \/ WarningTimerFires
    \/ ClockTicks

\* The editor under a host that applies every value at once.
Init == EditorInit("sync")

Next == EditorNext

Spec == Init /\ [][Next]_vars

\* The editor under a host that applies the values it receives later.
LateHostInit == EditorInit("late")

LateHostNext == EditorNext \/ HostApplies

SpecLateHost == LateHostInit /\ [][LateHostNext]_vars

----------------------------------------------------------------------------
(* Media selection, the media commands, the format commands and the        *)
(* keyboard                                                                *)

\* <img src="a.png">, <img src="b.png">, <h1>Hi</h1>
NodeImgA == Elem("img", {Attr("src", "a.png")}, "void")
NodeImgB == Elem("img", {Attr("src", "b.png")}, "void")
NodeH1 == Elem("h1", NoAttrs, "text")

\* The documents the host passes to an editor with media in it: two images
\* for the mouse, a paragraph and an image for the keyboard.
MediaDocs == { <<NodeImgA, NodeImgB>> }

KeyDocs == { <<NodeP, NodeImgA>> }

\* The URLs chosen in the asset picker.
AssetUrls == { "c.png" }

\* target.tagName === "IMG" || target.tagName === "VIDEO"
IsMedia(n) == n.tag \in {"img", "video"}

HasAttr(n, name) == \E a \in n.attrs : a.name = name

\* element.setAttribute(name, value)
SetAttr(n, name, value) ==
    [n EXCEPT !.attrs = { a \in @ : a.name # name } \cup {Attr(name, value)}]

\* classList.add("media-selected"), on an element that carries no other
\* class.
AddSelectedClass(n) == SetAttr(n, "class", "media-selected")

\* classList.remove("media-selected"): a class attribute that is there
\* stays, with the empty token list as its value.
RemoveSelectedClass(n) ==
    IF HasAttr(n, "class") THEN SetAttr(n, "class", "") ELSE n

\* setAttribute("src", url), then classList.remove("media-selected")
ReplaceSrc(url, n) == RemoveSelectedClass(SetAttr(n, "src", url))

\* doc after its element i was changed to n.
WithElement(doc, i, n) == [doc EXCEPT ![i] = n]

\* element.remove()
RemoveAt(doc, i) == SubSeq(doc, 1, i - 1) \o SubSeq(doc, i + 1, Len(doc))

\* One more gesture of the user on the mounted editor, while the run lasts.
Gesture ==
    /\ mounted
    /\ gestures < MaxGestures
    /\ gestures' = gestures + 1

\* What the handlers of this section leave alone: nothing is emitted, no
\* effect runs, the history is not touched.
MediaFrame ==
    /\ lastEffect' = NoEffect
    /\ NoOnChange
    /\ GhostIdle
    /\ UNCHANGED <<html, isInternalChange, isHistoryChange, hostMode>>
    /\ UNCHANGED <<offstage, histVars, obsVars>>

\* handleClick(e) with e.target the element at position target of the
\* region (0: a target that is no element of its own, text for instance).
handleClick(target) ==
    /\ IF target # 0 /\ IsMedia(dom[target])
       THEN /\ selectedMedia' = [index |-> target, attached |-> TRUE]
            /\ dom' = WithElement(dom, target, AddSelectedClass(dom[target]))
       ELSE IF selectedMedia # NoMedia
            THEN /\ dom' = IF selectedMedia.attached
                           THEN WithElement(dom, selectedMedia.index,
                                    RemoveSelectedClass(dom[selectedMedia.index]))
                           ELSE dom
                 /\ selectedMedia' = NoMedia
            ELSE UNCHANGED <<dom, selectedMedia>>
    /\ UNCHANGED <<emitTimer, upload>>
    /\ MediaFrame

\* The body of handleMediaReplace(url) as the render in which
\* selectedMedia was sel created it.
replaceMedia(sel, url) ==
    IF sel # NoMedia
    THEN /\ dom' = IF sel.attached
                   THEN WithElement(dom, sel.index,
                                    ReplaceSrc(url, dom[sel.index]))
                   ELSE dom
         /\ selectedMedia' = NoMedia
         /\ emitChange
    ELSE UNCHANGED <<dom, selectedMedia, emitTimer>>

\* handleMediaReplace(url)
handleMediaReplace(url) ==
    /\ replaceMedia(selectedMedia, url)
    /\ UNCHANGED upload
    /\ MediaFrame

\* The upload that is under way after the selected element was removed
\* from the document.
UploadAfterRemoval(u, sel) ==
    IF ~sel.attached \/ ~u.target.attached THEN u
    ELSE IF u.target.index = sel.index THEN DetachedUpload(u)
    ELSE IF u.target.index > sel.index
         THEN [u EXCEPT !.target.index = @ - 1]
         ELSE u

\* A handleMediaDelete that does not signal the change.
handleMediaDelete_NoEmit ==
    /\ IF selectedMedia # NoMedia
       THEN /\ dom' = IF selectedMedia.attached
                      THEN RemoveAt(dom, selectedMedia.index) ELSE dom
            /\ selectedMedia' = NoMedia
            /\ UNCHANGED emitTimer
       ELSE UNCHANGED <<dom, selectedMedia, emitTimer>>
    /\ upload' = UploadAfterRemoval(upload, selectedMedia)
    /\ MediaFrame

\* handleMediaDelete: classList.remove on the selected element, remove()
\* (without effect on the document when the element is not in it),
\* setSelectedMedia(null), emitChange().
handleMediaDelete ==
    /\ IF selectedMedia # NoMedia
       THEN /\ dom' = IF selectedMedia.attached
                      THEN RemoveAt(dom, selectedMedia.index) ELSE dom
            /\ selectedMedia' = NoMedia
            /\ emitChange
       ELSE UNCHANGED <<dom, selectedMedia, emitTimer>>
    /\ upload' = UploadAfterRemoval(upload, selectedMedia)
    /\ MediaFrame

\* The sizes a resize ends with: width and height as the strings
\* String(width), String(height).
ResizeSizes == { [width |-> "100", height |-> "50"] }

\* setAttribute("width"), setAttribute("height"), style.width and
\* style.height
Resized(n, size) ==
    SetAttr(SetAttr(SetAttr(n, "width", size.width), "height", size.height),
            "style", "width: 100px; height: 50px;")

\* handleImageResize(width, height): the selected element, an image, takes
\* the size; it stays selected; emitChange().
handleImageResize(size) ==
    /\ IF selectedMedia # NoMedia
       THEN /\ dom' = IF selectedMedia.attached
                      THEN WithElement(dom, selectedMedia.index,
                               Resized(dom[selectedMedia.index], size))
                      ELSE dom
            /\ emitChange
       ELSE UNCHANGED <<dom, emitTimer>>
    /\ UNCHANGED <<selectedMedia, upload>>
    /\ MediaFrame

\* The Escape branch of the editor's key handler.
deselectMedia ==
    /\ dom' = IF selectedMedia.attached
              THEN WithElement(dom, selectedMedia.index,
                       RemoveSelectedClass(dom[selectedMedia.index]))
              ELSE dom
    /\ selectedMedia' = NoMedia
    /\ UNCHANGED <<emitTimer, upload>>
    /\ MediaFrame

\* What document.execCommand leaves in the region is the browser's
\* business: the command has no effect, or the text blocks change between
\* plain and formatted.
Formatted(doc) ==
    [i \in 1..Len(doc) |->
        IF doc[i] = NodeP THEN NodeStrong
        ELSE IF doc[i] = NodeStrong THEN NodeP ELSE doc[i]]

\* formatBlock with a block type: the text blocks take that tag.
Blocked(doc, type) ==
    [i \in 1..Len(doc) |->
        IF doc[i] \in {NodeP, NodeH1}
        THEN (IF type = "p" THEN NodeP ELSE NodeH1) ELSE doc[i]]

\* executeFormat(command): focus the region, execCommand, onContentChange.
executeFormat(command) ==
    /\ focused' = TRUE
    /\ dom' \in {dom, Formatted(dom)}
    /\ emitChange
    /\ UNCHANGED <<selectedMedia, upload>>
    /\ MediaFrame

\* setBlockType(type)
setBlockType(type) ==
    /\ focused' = TRUE
    /\ dom' \in {dom, Blocked(dom, type)}
    /\ emitChange
    /\ UNCHANGED <<selectedMedia, upload>>
    /\ MediaFrame

\* The keydown events of the model: e.key with the modifier flags.
Keys ==
    { "b", "i", "u", "k", "z", "Z", "y", "1", "!", "0",
      "Delete", "Backspace", "Escape" }

KeyEvents ==
    { e \in [key : Keys, shift : BOOLEAN, ctrl : BOOLEAN, meta : BOOLEAN] :
        ~(e.ctrl /\ e.meta) }

\* e.key.toLowerCase()
KeyLower(key) == IF key = "Z" THEN "z" ELSE key

\* const modifier = isMac ? e.metaKey : e.ctrlKey
Modifier(e) == IF isMac THEN e.meta ELSE e.ctrl

\* The documented chord an event is (README, ShortcutsOverlay): the
\* platform's modifier alone with the letter, Shift where the table names
\* it.  Shift+1 gives e.key "1" or "!" according to the keyboard layout.
Chord(e) ==
    IF ~( (isMac /\ e.meta /\ ~e.ctrl) \/ (~isMac /\ e.ctrl /\ ~e.meta) )
    THEN "none"
    ELSE IF e.key = "b" /\ ~e.shift THEN "bold"
    ELSE IF e.key = "i" /\ ~e.shift THEN "italic"
    ELSE IF e.key = "u" /\ ~e.shift THEN "underline"
    ELSE IF e.key = "k" /\ ~e.shift THEN "link"
    ELSE IF e.key = "z" /\ ~e.shift THEN "undo"
    ELSE IF e.key \in {"z", "Z"} /\ e.shift THEN "redo"
    ELSE IF e.key = "y" /\ ~e.shift /\ ~isMac THEN "redo"
    ELSE IF e.key \in {"1", "!"} /\ e.shift THEN "h1"
    ELSE IF e.key = "0" /\ e.shift THEN "p"
    ELSE "none"

\* The key event of this step, the handlers it invoked and whether its
\* default was prevented.
Acted(e, acts, prevented) ==
    lastAct' = [kind |-> "key", chord |-> Chord(e), focus |-> focused,
                acts |-> acts, prevented |-> prevented]

\* The toolbar button clicked in this step and the handler it invoked.
Clicked(act) ==
    lastAct' = [kind |-> "button", chord |-> "none", focus |-> focused,
                acts |-> <<act>>, prevented |-> FALSE]

\* No handler acts on the event.
KeyIgnored ==
    /\ UNCHANGED <<dom, selectedMedia, upload, emitTimer, focused>>
    /\ MediaFrame

\* handleKeyDown of useTextFormatting, for an event the editor's own
\* handler has not acted on.
FormatKeyDown(e) ==
    IF ~focused \/ ~Modifier(e)
    THEN KeyIgnored /\ Acted(e, <<>>, FALSE)
    ELSE IF KeyLower(e.key) = "b"
    THEN executeFormat("bold") /\ Acted(e, <<"bold">>, TRUE)
    ELSE IF KeyLower(e.key) = "i"
    THEN executeFormat("italic") /\ Acted(e, <<"italic">>, TRUE)
    ELSE IF KeyLower(e.key) = "u"
    THEN executeFormat("underline") /\ Acted(e, <<"underline">>, TRUE)
    ELSE IF e.shift /\ e.key = "1"
    THEN setBlockType("h1") /\ Acted(e, <<"h1">>, TRUE)
    ELSE IF e.shift /\ e.key = "0"
    THEN setBlockType("p") /\ Acted(e, <<"p">>, TRUE)
    ELSE KeyIgnored /\ Acted(e, <<>>, FALSE)

\* One keydown event on the document: the editor's handleKeyDown and the
\* handleKeyDown of useTextFormatting both receive it; no event makes both
\* act.
KeyDown(e) ==
    /\ UNCHANGED <<isMac, showAssetPicker>>
    /\ IF selectedMedia # NoMedia /\ e.key \in {"Delete", "Backspace"}
       THEN /\ handleMediaDelete
            /\ UNCHANGED focused
            /\ Acted(e, <<"mediaDelete">>, TRUE)
       ELSE IF selectedMedia # NoMedia /\ e.key = "Escape"
       THEN /\ deselectMedia
            /\ UNCHANGED focused
            /\ Acted(e, <<"deselect">>, FALSE)
       ELSE IF focused /\ Modifier(e) /\ e.key \in {"z", "Z"}
       THEN /\ IF e.shift THEN handleRedo ELSE handleUndo
            /\ UNCHANGED focused
            /\ Acted(e, IF e.shift THEN <<"redo">> ELSE <<"undo">>, TRUE)
       ELSE IF focused /\ Modifier(e) /\ e.key = "y" /\ ~isMac
       THEN /\ handleRedo
            /\ UNCHANGED focused
            /\ Acted(e, <<"redo">>, TRUE)
       ELSE FormatKeyDown(e)

\* A key is pressed.
KeyPressed ==
    /\ Gesture
    /\ \E e \in KeyEvents : KeyDown(e)

\* A click inside the editable region, which takes the focus.  Its
\* mousedown is outside the media toolbar and closes an open asset picker.
ClickInEditor ==
    /\ Gesture
    /\ \E target \in {0} \cup { i \in 1..Len(dom) : IsMedia(dom[i]) } :
           handleClick(target)
    /\ focused' = TRUE
    /\ showAssetPicker' = FALSE
    /\ lastAct' = NoAct
    /\ UNCHANGED isMac

\* The Replace button of the media toolbar, shown while media is selected.
ReplaceClicked ==
    /\ Gesture
    /\ selectedMedia # NoMedia
    /\ showAssetPicker' = ~showAssetPicker
    /\ Clicked("replace")
    /\ UNCHANGED <<dom, selectedMedia, upload, emitTimer, focused, isMac>>
    /\ MediaFrame

\* An asset is picked in the open asset picker.
AssetPicked ==
    /\ Gesture
    /\ selectedMedia # NoMedia
    /\ showAssetPicker
    /\ \E url \in AssetUrls : handleMediaReplace(url)
    /\ showAssetPicker' = FALSE
    /\ Clicked("mediaReplace")
    /\ UNCHANGED <<focused, isMac>>

\* The delete button of the media toolbar.
DeleteClicked ==
    /\ Gesture
    /\ selectedMedia # NoMedia
    /\ handleMediaDelete
    /\ Clicked("mediaDelete")
    /\ UNCHANGED <<focused, isMac, showAssetPicker>>

\* A handle of the image resizer, shown while an image is selected, is
\* dragged and released: onResize(finalWidth, finalHeight).
ImageResized ==
    /\ Gesture
    /\ selectedMedia # NoMedia
    /\ \E size \in ResizeSizes : handleImageResize(size)
    /\ Clicked("imageResize")
    /\ UNCHANGED <<focused, isMac, showAssetPicker>>

\* The focus moves out of the editable region or back into it.
FocusChanges ==
    /\ Gesture
    /\ focused' = ~focused
    /\ lastAct' = NoAct
    /\ UNCHANGED <<isMac, dom, selectedMedia, upload, emitTimer,
                   showAssetPicker>>
    /\ MediaFrame

\* What the host's onUpload resolves with.
UploadUrls == { "u.png" }

\* A step of handleFileChange of the media toolbar.
Uploaded(step) ==
    lastAct' = [kind |-> "upload", chord |-> "none", focus |-> focused,
                acts |-> <<step>>, prevented |-> FALSE]

\* What a step of handleFileChange leaves alone, apart from the document,
\* the selection, the emission timer and the toolbar's own state.
UploadFrame ==
    /\ lastEffect' = NoEffect
    /\ NoOnChange
    /\ GhostIdle
    /\ UNCHANGED <<html, isInternalChange, isHistoryChange, hostMode,
                   focused, isMac, mounted>>
    /\ UNCHANGED <<sanVars, fontVars, dragVars, histVars, obsVars>>

\* handleFileChange up to its await: a file is chosen in the file input of
\* the open asset picker (disabled while isUploading), the host's onUpload
\* is called.  onReplace is the handleMediaReplace of this render.
UploadStarts ==
    /\ Gesture
    /\ selectedMedia # NoMedia
    /\ showAssetPicker
    /\ ~isUploading
    /\ ~upload.pending
    /\ isUploading' = TRUE
    /\ upload' = [pending |-> TRUE, target |-> selectedMedia]
    /\ Uploaded("started")
    /\ UNCHANGED <<dom, selectedMedia, emitTimer, showAssetPicker>>
    /\ UploadFrame

\* The promise of onUpload is fulfilled: onReplace(url),
\* setShowAssetPicker(false), and in the finally block
\* setIsUploading(false).  On a toolbar that is no longer mounted the
\* state setters do nothing.
UploadResolves ==
    /\ upload.pending
    /\ \E url \in UploadUrls : replaceMedia(upload.target, url)
    /\ showAssetPicker' = FALSE
    /\ isUploading' = FALSE
    /\ upload' = NoUpload
    /\ Uploaded("resolved")
    /\ UNCHANGED gestures
    /\ UploadFrame

\* A handleFileChange without the finally block.
UploadRejects_NoFinally ==
    /\ upload.pending
    /\ upload' = NoUpload
    /\ Uploaded("rejected")
    /\ UNCHANGED <<dom, selectedMedia, emitTimer, showAssetPicker, gestures,
                   isUploading>>
    /\ UploadFrame

\* The promise of onUpload is rejected: the catch block logs the error,
\* the finally block runs setIsUploading(false).
UploadRejects ==
    /\ upload.pending
    /\ isUploading' = FALSE
    /\ upload' = NoUpload
    /\ Uploaded("rejected")
    /\ UNCHANGED <<dom, selectedMedia, emitTimer, showAssetPicker, gestures>>
    /\ UploadFrame

\* A teardown that leaves the timer of useHistory running.
Unmount_KeepsHistoryTimer ==
    /\ mounted
    /\ mounted' = FALSE
    /\ emitTimer' = NoEmitTimer
    /\ UNCHANGED histVars
    /\ selectedMedia' = NoMedia
    /\ isUploading' = FALSE
    /\ showAssetPicker' = FALSE
    /\ upload' = DetachedUpload(upload)
    /\ lastEffect' = NoEffect
    /\ lastAct' = NoAct
    /\ NoOnChange
    /\ GhostIdle
    /\ UNCHANGED <<html, dom, isInternalChange, isHistoryChange, hostMode,
                   focused, isMac, gestures>>
    /\ UNCHANGED <<sanVars, fontVars, dragVars, obsVars>>

\* The host unmounts the editor: the cleanups of the editor and of
\* useHistory clear their timers, editorRef.current becomes null, the
\* state of the components is gone and the region leaves the document.
Unmount ==
    /\ mounted
    /\ mounted' = FALSE
    /\ emitTimer' = NoEmitTimer
    /\ historyTimer' = NoTimer
    /\ UNCHANGED <<undoStack, redoStack, currentValue, lastPushedValue>>
    /\ selectedMedia' = NoMedia
    /\ isUploading' = FALSE
    /\ showAssetPicker' = FALSE
    /\ upload' = DetachedUpload(upload)
    /\ lastEffect' = NoEffect
    /\ lastAct' = NoAct
    /\ NoOnChange
    /\ GhostIdle
    /\ UNCHANGED <<html, dom, isInternalChange, isHistoryChange, hostMode,
                   focused, isMac, gestures>>
    /\ UNCHANGED <<sanVars, fontVars, dragVars, obsVars>>

MediaInit == EditorInitWith("sync", MediaDocs, {FALSE})

MediaNext ==
    \/ ClickInEditor
    \/ ReplaceClicked
    \/ AssetPicked
    \/ DeleteClicked
    \/ ImageResized
    \/ UndoInvoked
    \/ RedoInvoked
    \/ EmitTimerFires
    \/ HistoryCommits
    \/ ClockTicks

\* The editor with two images in the document, driven by the mouse and the
\* toolbars, under a host that applies each value at once.
SpecMedia == MediaInit /\ [][MediaNext]_vars

UploadNext ==
    \/ ClickInEditor
    \/ ReplaceClicked
    \/ AssetPicked
    \/ UploadStarts
    \/ UploadResolves
    \/ UploadRejects
    \/ UndoInvoked
    \/ Unmount
    \/ EmitTimerFires
    \/ HistoryCommits
    \/ ClockTicks

\* The editor with two images in the document and a host whose onUpload
\* settles when it will, also after the editor was unmounted.
SpecUpload == MediaInit /\ [][UploadNext]_vars

KeysInit == EditorInitWith("sync", KeyDocs, BOOLEAN)

KeysNext ==
    \/ ClickInEditor
    \/ KeyPressed
    \/ FocusChanges
    \/ EmitTimerFires
    \/ HistoryCommits
    \/ ClockTicks

\* The editor driven by the keyboard, on either platform, under a host
\* that applies each value at once.
SpecKeys == KeysInit /\ [][KeysNext]_vars

----------------------------------------------------------------------------
(* hooks/useDragAndDrop *)

\* The tags of DRAGGABLE_SELECTORS.
DraggableTags ==
    { "p", "h1", "h2", "h3", "h4", "h5", "h6", "ul", "ol", "blockquote",
      "pre", "figure", "img", "video", "hr", "table" }

\* An element with its child elements.
Block(tag, attrs, body, kids) ==
    [tag |-> tag, attrs |-> attrs, body |-> body, kids |-> kids]

\* <p>Hi</p>, <h1>Hi</h1>, <img src="a.png">, <p>Hi<img src="a.png"></p>,
\* <ul>..</ul>, <blockquote>Hi<ul>..</ul></blockquote>
BlockP == Block("p", NoAttrs, "text", <<>>)
BlockH1 == Block("h1", NoAttrs, "text", <<>>)
BlockImg == Block("img", {Attr("src", "a.png")}, "void", <<>>)
BlockPImg == Block("p", NoAttrs, "text", <<BlockImg>>)
BlockUl == Block("ul", NoAttrs, "text", <<>>)
BlockQuoteUl == Block("blockquote", NoAttrs, "text", <<BlockUl>>)

\* The documents that are dragged in: a paragraph holding an image and a
\* heading; a paragraph, a quote holding a list and a heading; a paragraph
\* alone.
DragDocs ==
    { <<BlockPImg, BlockH1>>, <<BlockP, BlockQuoteUl, BlockH1>>, <<BlockP>> }

\* dragState between two gestures.
NoDrag ==
    [isDragging |-> FALSE, draggedElement |-> <<>>, dropIndicatorY |-> -1,
     dropTarget |-> <<>>, dropPosition |-> "none"]

\* The layout of the model: an element takes one line of two units for
\* its own content and below it the lines of its child elements, the
\* blocks of the region follow one another downwards from clientY 0.
RECURSIVE LinesOf(_)
LinesOf(seq) ==
    IF seq = <<>> THEN 0
    ELSE 1 + LinesOf(Head(seq).kids) + LinesOf(Tail(seq))

\* rect.height
Height(n) == 2 * (1 + LinesOf(n.kids))

\* The elements of seq and their descendants from the k-th on, in document
\* order, each with the path that leads to it from the region (the
\* positions among the children, level by level) and its bounding box.
RECURSIVE Boxes(_, _, _, _)
Boxes(seq, k, prefix, top) ==
    IF k > Len(seq) THEN <<>>
    ELSE LET n == seq[k]
             path == Append(prefix, k)
         IN  << [path |-> path, tag |-> n.tag, top |-> top,
                 height |-> Height(n)] >>
             \o Boxes(n.kids, 1, path, top + 2)
             \o Boxes(seq, k + 1, prefix, top + Height(n))

\* The selector list ":scope > p, h1, h2, ...": its first selector is
\* ":scope > p", every other one matches an element at any depth.
Matches(b) ==
    \/ b.tag = "p" /\ Len(b.path) = 1
    \/ b.tag \in DraggableTags \ {"p"}

\* getBlockElements(): querySelectorAll returns the matching elements in
\* document order.
getBlockElements == SelectSeq(Boxes(dom, 1, <<>>, 0), Matches)

\* findBlockParent(element) for an element in the i-th child of the
\* region: that child if it matches DRAGGABLE_SELECTORS, else null.
findBlockParent(i) ==
    IF dom[i].tag \in DraggableTags THEN <<i>> ELSE <<>>

\* A comparison that takes a pointer on the midpoint for one above it.
PointerAbove_Inclusive(y, midY) == y <= midY

\* if (y < midY)
PointerAbove(y, midY) == y < midY

\* What calculateDropPosition returns when its loop assigned nothing.
NoTarget == [dropTarget |-> <<>>, dropPosition |-> "none", indicatorY |-> -1]

\* The loop of calculateDropPosition from the k-th block on, found being
\* what it assigned so far.
RECURSIVE ScanBlocks(_, _, _, _, _)
ScanBlocks(y, blocks, draggedElement, k, found) ==
    IF k > Len(blocks) THEN found
    ELSE LET block == blocks[k]
             midY == block.top + block.height \div 2
         IN  IF block.path = draggedElement
             THEN ScanBlocks(y, blocks, draggedElement, k + 1, found)
             ELSE IF PointerAbove(y, midY)
             THEN [dropTarget |-> block.path, dropPosition |-> "before",
                   indicatorY |-> block.top]
             ELSE ScanBlocks(y, blocks, draggedElement, k + 1,
                      [dropTarget |-> block.path, dropPosition |-> "after",
                       indicatorY |-> block.top + block.height])

\* calculateDropPosition(y, blocks, draggedElement)
calculateDropPosition(y, blocks, draggedElement) ==
    ScanBlocks(y, blocks, draggedElement, 1, NoTarget)

\* classList.add("dragging"), on an element that carries no other class.
AddDraggingClass(n) == SetAttr(n, "class", "dragging")

\* classList.remove("dragging"): the class attribute stays, empty.
RemoveDraggingClass(n) ==
    IF HasAttr(n, "class") THEN SetAttr(n, "class", "") ELSE n

\* The element at path is a descendant of the block at dragged.
IsInside(path, dragged) == Len(path) > 1 /\ path[1] = dragged[1]

\* seq with node as a new sibling of the element at path, right before or
\* right after it.
RECURSIVE InsertAdjacent(_, _, _, _)
InsertAdjacent(seq, path, position, node) ==
    IF Len(path) = 1
    THEN LET at == IF position = "before" THEN path[1] ELSE path[1] + 1
         IN  SubSeq(seq, 1, at - 1) \o <<node>> \o SubSeq(seq, at, Len(seq))
    ELSE [seq EXCEPT ![path[1]].kids =
              InsertAdjacent(@, Tail(path), position, node)]

\* The path of the element at path once the block at dragged has left the
\* region.
AfterLeave(path, dragged) ==
    IF path[1] > dragged[1] THEN [path EXCEPT ![1] = @ - 1] ELSE path

\* dropTarget.parentElement.insertBefore(draggedElement, dropTarget) for
\* "before", insertBefore(draggedElement, dropTarget.nextSibling) for
\* "after": the dragged block leaves its place and becomes the sibling of
\* the target on that side.
insertBefore(doc, dragged, target, position) ==
    InsertAdjacent(RemoveAt(doc, dragged[1]), AfterLeave(target, dragged),
                   position, doc[dragged[1]])

\* Where the dragged block is after insertBefore.
Landed(dragged, target, position) ==
    LET t == AfterLeave(target, dragged)
    IN  [t EXCEPT ![Len(t)] = IF position = "before" THEN @ ELSE @ + 1]

\* The frame of the handlers of the hook: no onChange, no effect on
\* [html], the history and the selection are not touched.
DragFrame ==
    /\ lastEffect' = NoEffect
    /\ lastAct' = NoAct
    /\ NoOnChange
    /\ GhostIdle
    /\ UNCHANGED <<html, isInternalChange, isHistoryChange, hostMode,
                   selectedMedia, upload, focused, isMac>>
    /\ UNCHANGED <<sanVars, fontVars, mounted, isUploading, histVars,
                   obsVars>>

\* The pointer event of this step and what came of it.
Pointer(kind, y, ran, threw, signalled, landed) ==
    lastDrag' = [kind |-> kind, y |-> y, ran |-> ran, threw |-> threw,
                 signalled |-> signalled, landed |-> landed]

\* handleDragStart(element, e) for an element whose block parent is the
\* i-th child of the region.
handleDragStart(i) ==
    /\ dom' = WithElement(dom, i, AddDraggingClass(dom[i]))
    /\ dragGhost' = TRUE
    /\ dragState' = [isDragging |-> TRUE, draggedElement |-> <<i>>,
                     dropIndicatorY |-> -1, dropTarget |-> <<>>,
                     dropPosition |-> "none"]

\* handleDragMove(e) with e.clientY = y
handleDragMove(y) ==
    IF ~dragState.isDragging \/ dragState.draggedElement = <<>>
    THEN UNCHANGED dragState
    ELSE LET r == calculateDropPosition(y, getBlockElements,
                                        dragState.draggedElement)
         IN  dragState' = [dragState EXCEPT
                              !.dropTarget = r.dropTarget,
                              !.dropPosition = r.dropPosition,
                              !.dropIndicatorY = r.indicatorY]

\* handleDragEnd().  insertBefore throws a HierarchyRequestError when the
\* parent of the target is the dragged block or inside it; what follows
\* the call in the handler is then not executed.
handleDragEnd ==
    IF ~dragState.isDragging
    THEN /\ UNCHANGED <<dom, emitTimer, dragState, dragGhost>>
         /\ Pointer("up", -1, TRUE, FALSE, FALSE, <<>>)
    ELSE LET draggedElement == dragState.draggedElement
             dropTarget == dragState.dropTarget
             dropPosition == dragState.dropPosition
             cleared == IF draggedElement # <<>>
                        THEN WithElement(dom, draggedElement[1],
                                 RemoveDraggingClass(dom[draggedElement[1]]))
                        ELSE dom
         IN  /\ dragGhost' = FALSE
             /\ IF draggedElement # <<>> /\ dropTarget # <<>>
                   /\ dropPosition # "none"
                THEN IF IsInside(dropTarget, draggedElement)
                     THEN /\ dom' = cleared
                          /\ UNCHANGED <<emitTimer, dragState>>
                          /\ Pointer("up", -1, TRUE, TRUE, FALSE, <<>>)
                     ELSE /\ dom' = insertBefore(cleared, draggedElement,
                                                 dropTarget, dropPosition)
                          /\ emitChange
                          /\ dragState' = NoDrag
                          /\ Pointer("up", -1, TRUE, FALSE, TRUE,
                                     Landed(draggedElement, dropTarget,
                                            dropPosition))
                ELSE /\ dom' = cleared
                     /\ UNCHANGED emitTimer
                     /\ dragState' = NoDrag
                     /\ Pointer("up", -1, TRUE, FALSE, FALSE, <<>>)

\* The effect on [dragState.isDragging, ...] after the render: the
\* listeners are on the document exactly while isDragging is set.
ListenersEffect == dragListeners' = dragState'.isDragging

\* The drag handle, rendered while no drag is under way, is pressed over
\* a block of the region.  The media toolbar is not rendered during a
\* drag and comes back with its initial state.  The model drags while no
\* media is selected.
DragStart ==
    /\ Gesture
    /\ ~dragState.isDragging
    /\ selectedMedia = NoMedia
    /\ ~upload.pending
    /\ \E i \in 1..Len(dom) :
           /\ findBlockParent(i) # <<>>
           /\ handleDragStart(i)
    /\ ListenersEffect
    /\ showAssetPicker' = FALSE
    /\ Pointer("down", -1, TRUE, FALSE, FALSE, <<>>)
    /\ UNCHANGED emitTimer
    /\ DragFrame

\* The pointer moves somewhere in the page.
PointerMoves ==
    /\ Gesture
    /\ \E y \in 0..MaxY :
           /\ IF dragListeners THEN handleDragMove(y)
                               ELSE UNCHANGED dragState
           /\ Pointer("move", y, dragListeners, FALSE, FALSE, <<>>)
    /\ ListenersEffect
    /\ UNCHANGED <<dom, emitTimer, dragGhost, showAssetPicker>>
    /\ DragFrame

\* The mouse button is released somewhere in the page.
PointerReleased ==
    /\ Gesture
    /\ IF dragListeners
       THEN handleDragEnd
       ELSE /\ UNCHANGED <<dom, emitTimer, dragState, dragGhost>>
            /\ Pointer("up", -1, FALSE, FALSE, FALSE, <<>>)
    /\ ListenersEffect
    /\ UNCHANGED showAssetPicker
    /\ DragFrame

DragInit == EditorInitWith("sync", DragDocs, {FALSE})

DragNext ==
    \/ DragStart
    \/ PointerMoves
    \/ PointerReleased
    \/ EmitTimerFires
    \/ HistoryCommits
    \/ ClockTicks

\* The editor with blocks in the document, driven by the drag handle and
\* the pointer, under a host that applies each value at once.
SpecDrag == DragInit /\ [][DragNext]_vars

----------------------------------------------------------------------------
(* Properties of useHistory, checked under SpecHistory *)

\* The timer call-back is running and pushes (its value differs from the
\* committed one).
PushStep ==
    /\ historyTimer.pending
    /\ historyTimer.left = 0
    /\ historyTimer' = NoTimer
    /\ historyTimer.value # lastPushedValue

\* C1: over every sequence of record calls, timer firings, undo, redo and
\* reset the undo stack holds at most maxHistory entries, and a push onto a
\* full stack drops the oldest entry (the others keep their order, the
\* committed value comes last).
C1_UndoStackBounded ==
    /\ [](Len(undoStack) <= MaxHistory)
    /\ [][ (PushStep /\ Len(undoStack) = MaxHistory /\ MaxHistory > 0)
              => undoStack' = Append(Tail(undoStack), lastPushedValue) ]_vars

\* More values than maxHistory were committed one after the other, so the
\* oldest entry has been dropped from a full stack.
C1_Witness ==
    /\ law.phase = "record"
    /\ law.k > MaxHistory
    /\ Len(undoStack) = MaxHistory
    /\ burst.outcome = "pushed"

\* The scenario of the undo/redo law has run to its end.
LawDone == law.phase = "redo" /\ law.redos = law.k - 1

\* C2 as claimed: after k committed records, k-1 undo calls and k-1 redo
\* calls the committed value is vk and the last redo returned vk, also when
\* k-1 exceeds maxHistory.
C2_LastRedoReturnsVk ==
    LawDone => /\ lastPushedValue = law.vk
               /\ lastReturn = ReturnValue(law.vk)

\* C2 amended: the committed value is vk in every case; the last redo
\* returns vk when k-1 <= maxHistory and null when k-1 exceeds maxHistory
\* (the surplus redo calls find the redo stack empty, as the surplus undo
\* calls found the undo stack empty).
C2_UndoRedoInverse ==
    LawDone => /\ lastPushedValue = law.vk
               /\ currentValue = law.vk
               /\ lastReturn = IF law.k - 1 <= MaxHistory
                               THEN ReturnValue(law.vk) ELSE ReturnNull

\* The law's scenario has ended with more undo calls than the stack held.
C2_Witness == LawDone /\ law.k - 1 > MaxHistory /\ lastPushedValue = law.vk

\* A pushToHistory call has just returned.
JustRecorded ==
    /\ burst.outcome = "open"
    /\ burst.pure
    /\ historyTimer.pending
    /\ historyTimer.left = HistoryDebounce

\* C3: a redo() that follows an undo() and the recording of a new distinct
\* value returns null, and the redo stack is empty immediately after an
\* edit that is not an undo or a redo.
C3_RedoClearedOnNewEdit ==
    /\ afterUndo \in {"redone", "redoneEarly"} => lastReturn = ReturnNull
    /\ JustRecorded => redoStack = <<>>

\* A burst without undo, redo or reset in it has ended with its timer
\* firing.
BurstDone == burst.outcome \in {"pushed", "skipped"} /\ burst.pure

\* C4 as claimed: a burst of two or more rapid record calls produces
\* exactly one push, of the value committed before the burst.
C4_ExactlyOnePush ==
    (BurstDone /\ burst.n >= 2)
        => /\ burst.outcome = "pushed"
           /\ undoStack = PushLimited(burst.stack, burst.base)

\* C4 amended: the record calls of a burst push nothing; when the timer
\* fires, the burst produces exactly one push, of the value committed
\* before the burst, if its last value differs from that value, and no push
\* at all if its last value equals it.
C4_DebounceCoalescing ==
    /\ (burst.outcome = "open" /\ burst.pure)
           => undoStack = burst.stack /\ lastPushedValue = burst.base
    /\ (BurstDone /\ burst.outcome = "pushed")
           => /\ undoStack = Append(burst.stack, burst.base)
                 \/ /\ Len(burst.stack) = MaxHistory
                    /\ undoStack = Append(Tail(burst.stack), burst.base)
              /\ lastPushedValue = currentValue
              /\ lastPushedValue # burst.base
    /\ (BurstDone /\ burst.outcome = "skipped")
           => /\ undoStack = burst.stack
              /\ lastPushedValue = burst.base
              /\ currentValue = burst.base

\* A burst of several record calls has ended with one push.
C4_Witness == BurstDone /\ burst.n >= 2 /\ burst.outcome = "pushed"

\* The history's timer call-back runs with the committed value.
SkipStep ==
    /\ historyTimer.pending
    /\ historyTimer.left = 0
    /\ historyTimer' = NoTimer
    /\ historyTimer.value = lastPushedValue

\* C14: a timer that fires with a value equal to the committed one pushes
\* nothing: the undo stack, the redo stack and the committed value stay.
C14_EqualValueNoPush ==
    [][SkipStep => UNCHANGED <<undoStack, redoStack, lastPushedValue>>]_vars

\* A timer has fired with the committed value while the redo stack held an
\* entry.
C14_Witness == burst.outcome = "skipped" /\ redoStack # <<>>

\* C15: undo() on an empty undo stack and redo() on an empty redo stack
\* return null and leave both stacks and the committed value as they were.
C15_EmptyStackNoOp ==
    [][ ((Undo /\ undoStack = <<>>) \/ (Redo /\ redoStack = <<>>))
            => /\ lastReturn' = ReturnNull
               /\ UNCHANGED <<undoStack, redoStack, lastPushedValue,
                              currentValue>> ]_vars

\* A call on an empty stack has returned null after a value was committed.
C15_Witness ==
    /\ lastReturn = ReturnNull
    /\ redoStack = <<>>
    /\ undoStack # <<>>

----------------------------------------------------------------------------
(* Properties of the sanitizer, checked under SpecSanitize *)

HasScript(doc) == \E i \in 1..Len(doc) : doc[i].tag = "script"

HasHandler(doc) ==
    \E i \in 1..Len(doc) : \E a \in doc[i].attrs : a.name = "onclick"

HasJavascriptUri(doc) ==
    \E i \in 1..Len(doc) :
        \E a \in doc[i].attrs : Scheme(a.value) = "javascript"

Dangerous(doc) == HasScript(doc) \/ HasHandler(doc) \/ HasJavascriptUri(doc)

CountOf(n, doc) == Cardinality({ i \in 1..Len(doc) : doc[i] = n })

\* C5: for host HTML with a <script> element, an onclick attribute or a
\* javascript: href, neither the DOM written by reconciliation nor the
\* output emitted from it holds any of them, <strong> siblings are kept,
\* and <p>Hi</p><script>alert(1)</script> becomes <p>Hi</p>.
C5_DangerousContentEliminated ==
    /\ sPc \in {"dom", "out", "out2"}
           => /\ ~Dangerous(sDom)
              /\ CountOf(NodeStrong, sDom) = CountOf(NodeStrong, sIn)
              /\ sIn = <<NodeP, NodeScript>> => sDom = <<NodeP>>
    /\ sPc \in {"out", "out2"}
           => /\ ~Dangerous(sOut)
              /\ CountOf(NodeStrong, sOut) = CountOf(NodeStrong, sIn)
              /\ sIn = <<NodeP, NodeScript>> => sOut = <<NodeP>>

\* C6: sanitizeForOutput(sanitizeForOutput(x)) = sanitizeForOutput(x).
C6_SanitizeForOutputIdempotent ==
    sPc \in {"out2", "direct2"} => sOut2 = sOut

----------------------------------------------------------------------------
(* Properties of the editor, checked under Spec (a host that applies each  *)
(* value at once) and SpecLateHost (a host that applies them later)        *)

\* Every string sanitizeForOutput can return for an input of the model.
OutputImage == { sanitizeForOutput(d) : d \in AllDocs }

\* C7: every value passed to onChange is sanitized-for-output HTML, a
\* result of sanitizeForOutput; on the undo/redo path too, down to the
\* oldest snapshot, the html prop the history was created with.
C7_OnChangeGetsSanitizedOutput ==
    lastOnChange.kind # "none" => lastOnChange.value \in OutputImage

\* C8 as claimed: any two onChange calls, whatever their origin, are at
\* least one debounce window apart.
C8_OnChangeOncePerWindow ==
    lastOnChange.kind # "none" => lastOnChange.gap >= EmitDebounce

\* C8 amended: the debounced emissions are at least one debounce window
\* apart from each other; undo and redo call onChange at once, within the
\* window of an emission or of each other.
C8_EmissionOncePerWindow ==
    lastOnChange.kind = "timer" => lastOnChange.timerGap >= EmitDebounce

\* A debounced emission less than a window after an onChange call made by
\* undo or redo, itself made after an earlier emission.
C8_Witness ==
    /\ lastOnChange.kind = "timer"
    /\ lastOnChange.gap < EmitDebounce
    /\ lastOnChange.timerGap >= EmitDebounce

\* C9: a change of the html prop that the host made of its own accord is
\* reconciled: afterwards the editable region holds the sanitized prop.
C9_ExternalChangeReconciled ==
    lastEffect.origin = "external" => dom = sanitizeHtml(html)

\* C10: an html prop that echoes an emission never overwrites the editable
\* region, and a prop whose sanitized form equals what the region holds
\* causes no write, also when two emitted values are pending at the host.
C10_EchoNeverOverwrites ==
    /\ lastEffect.origin = "echo" => ~lastEffect.wrote
    /\ (lastEffect.origin # "none" /\ lastEffect.same) => ~lastEffect.wrote

\* C12: an emission that is no replay of an undo or redo (no emission was
\* pending when the latest undo/redo ran) pushes its value to the history.
C12_EditAfterUndoRecorded ==
    (lastOnChange.kind = "timer" /\ ~lastOnChange.replay)
        => lastOnChange.pushed

Top(stack) == stack[Len(stack)]

\* C13: handleUndo (handleRedo) with a non-empty stack writes
\* sanitizeHtml(snapshot) into the editable region and calls onChange in
\* the same step with the snapshot as undo() (redo()) returned it; with an
\* empty stack the region is not written and onChange is not called.
C13_UndoRedoWriteAndNotify ==
    [][ /\ (handleUndo /\ Len(undoStack) > 0)
            => /\ dom' = sanitizeHtml(Top(undoStack))
               /\ lastOnChange'.kind = "undo"
               /\ lastOnChange'.value = Top(undoStack)
        /\ (handleRedo /\ Len(redoStack) > 0)
            => /\ dom' = sanitizeHtml(Top(redoStack))
               /\ lastOnChange'.kind = "redo"
               /\ lastOnChange'.value = Top(redoStack)
        /\ (handleUndo /\ Len(undoStack) = 0)
            => dom' = dom /\ lastOnChange'.kind = "none"
        /\ (handleRedo /\ Len(redoStack) = 0)
            => dom' = dom /\ lastOnChange'.kind = "none" ]_vars

\* An undo has handed the host a snapshot that sanitizeHtml would change,
\* and the region holds the sanitized snapshot.
C13_Witness ==
    /\ lastOnChange.kind = "undo"
    /\ dom = sanitizeHtml(lastOnChange.value)
    /\ dom # lastOnChange.value

\* C16: after the host has replaced the html prop of its own accord the
\* history is reset: both stacks are empty and the committed value is the
\* new document.
C16_ExternalReplacementResets ==
    lastEffect.origin = "external"
        => /\ undoStack = <<>>
           /\ redoStack = <<>>
           /\ lastPushedValue = html

----------------------------------------------------------------------------
(* Properties of media selection and of the keyboard, checked under        *)
(* SpecMedia and SpecKeys                                                  *)

\* C11: at a quiescent moment (no emission timer and no history timer
\* pending), and unless the host has set the html prop of its own accord
\* since, the region's content run through sanitizeForOutput is the value
\* onChange received last (which the host has made the html prop).
C11_QuiescentDomIsLastEmission ==
    (~emitTimer.pending /\ ~historyTimer.pending /\ propOrigin = "emitted")
        => sanitizeForOutput(dom) = html

\* C17: a key event that arrives while the focus is outside the editable
\* region invokes no handler and does not have its default prevented.
C17_NoKeyActionWithoutFocus ==
    (lastAct.kind = "key" /\ ~lastAct.focus)
        => (lastAct.acts = <<>> /\ ~lastAct.prevented)

\* C18: a key event that is a documented chord and arrives while the focus
\* is inside the editable region invokes the chord's action, once, and
\* nothing else.
C18_ChordActsOnce ==
    (lastAct.kind = "key" /\ lastAct.focus /\ lastAct.chord # "none")
        => lastAct.acts = <<lastAct.chord>>

\* C19: a media delete issued while the selected element is in the document
\* removes that element and no other, leaves the other nodes as they were
\* and in their order, clears the selection, and schedules one emission
\* without calling onChange itself.
C19_MediaDeleteRemovesSelected ==
    [][ (handleMediaDelete /\ selectedMedia.attached)
            => /\ Len(dom') = Len(dom) - 1
               /\ \A j \in 1..Len(dom') :
                      dom'[j] = IF j < selectedMedia.index
                                THEN dom[j] ELSE dom[j + 1]
               /\ selectedMedia' = NoMedia
               /\ emitTimer' = [pending |-> TRUE, left |-> EmitDebounce]
               /\ lastOnChange'.kind = "none" ]_vars

\* The first of two images was selected and deleted with the toolbar's
\* button: the second is all that is left, nothing is selected, one
\* emission is pending.
C19_Witness ==
    /\ lastAct.kind = "button"
    /\ lastAct.acts = <<"mediaDelete">>
    /\ dom = <<NodeImgB>>
    /\ selectedMedia = NoMedia
    /\ emitTimer.pending

\* The media elements of a document that carry the selection indicator.
Marked(doc) ==
    { i \in 1..Len(doc) :
        IsMedia(doc[i]) /\ Attr("class", "media-selected") \in doc[i].attrs }

\* C20: at most one media element carries the selection indicator class,
\* and an element carries it if and only if it is the selected media.
C20_SelectionExclusive ==
    /\ Cardinality(Marked(dom)) <= 1
    /\ \A i \in 1..Len(dom) :
           i \in Marked(dom)
               <=> (selectedMedia.attached /\ selectedMedia.index = i)

----------------------------------------------------------------------------
(* Properties of the advisory banner, of the emission debounce and of      *)
(* teardown                                                                *)

\* C22: an html prop set by the host that trips containsDangerousContent
\* makes the banner visible, and the banner is visible for as long as
\* the 3 s counted from the arrival of such a prop have not passed (the
\* timer set at its arrival is pending).
C22_BannerShownForDuration ==
    /\ (lastEffect.origin = "external" /\ containsDangerousContent(html))
           => showWarning
    /\ warningTimers > 0 => showWarning

\* C21: when the host's upload function rejects, the document, the
\* emission timer, the media selection and the asset picker are what they
\* were and isUploading is false again; isUploading is true only while an
\* upload has started and has not settled.
C21_UploadRejectionCaught ==
    /\ [](isUploading => upload.pending)
    /\ [][ (lastAct'.kind = "upload" /\ lastAct'.acts = <<"rejected">>)
              => /\ UNCHANGED <<dom, emitTimer, selectedMedia,
                                showAssetPicker>>
                 /\ ~isUploading' ]_vars

\* An upload was rejected while the toolbar showed the open picker.
C21_Witness ==
    /\ lastAct.kind = "upload"
    /\ lastAct.acts = <<"rejected">>
    /\ selectedMedia # NoMedia
    /\ showAssetPicker

\* C28: every trigger of emitChange leaves one emission timer pending, due
\* debounceMs later; onChange is called by the timer only when that timer
\* is due, once (no timer is pending afterwards), with the content the
\* editable region has at that moment, serialized for output.
C28_EmissionDebounced ==
    /\ [][ (AssetPicked \/ DeleteClicked)
              => emitTimer' = [pending |-> TRUE, left |-> EmitDebounce] ]_vars
    /\ [][ lastOnChange'.kind = "timer"
              => /\ emitTimer.pending
                 /\ emitTimer.left = 0
                 /\ ~emitTimer'.pending
                 /\ lastOnChange'.value = sanitizeForOutput(dom) ]_vars

\* Both images were deleted, the second before the deletion of the first
\* was emitted (the prop is still the initial document), and debounceMs
\* have passed since: the one timer is due.
C28_Witness ==
    /\ Len(html) = 2
    /\ dom = <<>>
    /\ emitTimer.pending
    /\ emitTimer.left = 0

----------------------------------------------------------------------------
(* Properties of the drag gesture, checked under SpecDrag *)

\* The blocks of doc that carry the dragging class.
DraggingMarked(doc) ==
    { i \in 1..Len(doc) : Attr("class", "dragging") \in doc[i].attrs }

\* C23: when the release handler has run, the drag state is Idle, the
\* ghost is gone, no block carries the dragging class and the handler has
\* not thrown.
C23_DragAlwaysEnds ==
    (lastDrag.kind = "up" /\ lastDrag.ran)
        => /\ ~dragState.isDragging
           /\ ~dragGhost
           /\ DraggingMarked(dom) = {}
           /\ ~lastDrag.threw

\* The candidates of a move: the block elements but the dragged one.
Candidates ==
    SelectSeq(getBlockElements,
              LAMBDA b : b.path # dragState.draggedElement)

\* The candidates whose vertical midpoint is strictly below y.
MidBelow(y) ==
    { k \in 1..Len(Candidates) :
        2 * y < 2 * Candidates[k].top + Candidates[k].height }

\* C24: after a pointer move at y during a drag, the target is the first
\* candidate in document order whose midpoint is strictly below y, with
\* position before; if there is none it is the last candidate, with
\* position after (and no target when there is no candidate).
C24_DropTargetResolution ==
    (lastDrag.kind = "move" /\ lastDrag.ran /\ dragState.isDragging)
        => IF Candidates = <<>>
           THEN dragState.dropTarget = <<>>
                /\ dragState.dropPosition = "none"
           ELSE IF MidBelow(lastDrag.y) # {}
           THEN LET k == CHOOSE m \in MidBelow(lastDrag.y) :
                             \A j \in MidBelow(lastDrag.y) : m <= j
                IN  /\ dragState.dropTarget = Candidates[k].path
                    /\ dragState.dropPosition = "before"
           ELSE /\ dragState.dropTarget = Candidates[Len(Candidates)].path
                /\ dragState.dropPosition = "after"

\* The pointer moved onto the very midpoint of a candidate, which is not
\* the block the drop goes before unless a later one is.
C24_Witness ==
    /\ lastDrag.kind = "move"
    /\ lastDrag.ran
    /\ dragState.isDragging
    /\ \E k \in 1..Len(Candidates) :
           /\ 2 * lastDrag.y = 2 * Candidates[k].top + Candidates[k].height
           /\ dragState.dropTarget = Candidates[k].path
           /\ dragState.dropPosition = "after"

\* C25: the dragged block and the drop target are direct children of the
\* region, and a dropped block is a direct child of the region.
C25_OnlyDirectChildren ==
    /\ dragState.draggedElement # <<>> => Len(dragState.draggedElement) = 1
    /\ dragState.dropTarget # <<>> => Len(dragState.dropTarget) = 1
    /\ lastDrag.landed # <<>> => Len(lastDrag.landed) = 1

\* doc without the class attributes of its blocks.
WithoutClass(doc) ==
    [i \in 1..Len(doc) |->
        [doc[i] EXCEPT !.attrs = { a \in @ : a.name # "class" }]]

\* C26: a release during a drag signals the change (once: the one
\* emission timer is started) if and only if the drag state holds a
\* target and a position; when it holds none the blocks of the document
\* are what they were and the emission timer is not touched.
C26_SignalIffTarget ==
    [][ (PointerReleased /\ dragState.isDragging)
          => LET pair == /\ dragState.dropTarget # <<>>
                         /\ dragState.dropPosition # "none"
             IN  /\ lastDrag'.signalled <=> pair
                 /\ lastDrag'.signalled
                        => emitTimer' = [pending |-> TRUE,
                                         left |-> EmitDebounce]
                 /\ ~pair => /\ WithoutClass(dom') = WithoutClass(dom)
                             /\ UNCHANGED emitTimer ]_vars

\* C27: the listeners are on the document exactly while the state is
\* Dragging; a pointer move or release in Idle changes neither the drag
\* state nor the document; after a release no listener is left, so that
\* no drag handler runs after the drop.
C27_ListenersOnlyWhileDragging ==
    /\ [](dragListeners <=> dragState.isDragging)
    /\ [][ ((PointerMoves \/ PointerReleased) /\ ~dragState.isDragging)
              => UNCHANGED <<dragState, dom>> ]_vars
    /\ [][ (PointerReleased /\ dragState.isDragging)
              => ~dragListeners' ]_vars

\* |a - b|
Dist(a, b) == IF a >= b THEN a - b ELSE b - a

\* The steps of the scale nearest to n px.
NearestSteps(n) ==
    { k \in 1..7 :
        \A j \in 1..7 : Dist(FontScale[k], n) <= Dist(FontScale[j], n) }

\* C30: when wrapping the selection fails, setFontSize applies the step of
\* the scale that is nearest to the requested pixel size.
C30_FallbackIsNearestStep ==
    (fsPc = "done" /\ fsIn.selection = "partial" /\ fsIn.size.numeric)
        => (fsOut.kind = "step" /\ fsOut.step \in NearestSteps(fsIn.size.px))

----------------------------------------------------------------------------
(* Further properties of useHistory, checked under SpecHistory *)

\* C33: when undo() or redo() has returned a value and the timer that was
\* pending at that call fires before any other call, the stacks stay as
\* the call left them and the committed value stays the returned one.
C33_StaleTimerIsHarmless ==
    [][ (lastReturn.kind = "value" /\ TimerFires)
          => /\ lastPushedValue = lastReturn.value
             /\ UNCHANGED <<undoStack, redoStack, lastPushedValue>> ]_vars

\* C37: the undo stack and the redo stack hold at most maxHistory entries
\* together, and the undo stack alone never more than maxHistory.
C37_CombinedDepthBounded ==
    /\ Len(undoStack) + Len(redoStack) <= MaxHistory
    /\ Len(undoStack) <= MaxHistory

\* A redo() has just filled the undo stack up to maxHistory.
C37_Witness ==
    /\ lastReturn.kind = "value"
    /\ Len(undoStack) = MaxHistory
    /\ MaxHistory > 0

\* The undo stack (oldest first), the committed value, the redo stack (top
\* first).
Timeline ==
    undoStack \o <<lastPushedValue>>
        \o [i \in 1..Len(redoStack) |-> redoStack[Len(redoStack) + 1 - i]]

\* C38: any two adjacent values of the timeline differ, and a successful
\* undo() or redo() returns a value that differs from the one committed
\* before it.
C38_NoNoOpStep ==
    /\ [](\A i \in 1..(Len(Timeline) - 1) : Timeline[i] # Timeline[i + 1])
    /\ [][ (Undo \/ Redo) /\ lastReturn'.kind = "value"
              => lastReturn'.value # lastPushedValue ]_vars

\* A successful undo() or redo() left entries on both stacks.
C38_Witness ==
    /\ lastReturn.kind = "value"
    /\ undoStack # <<>>
    /\ redoStack # <<>>

----------------------------------------------------------------------------
(* Further properties of the editor's media selection and of the drag      *)
(* gesture                                                                 *)

\* The elements of doc that carry one of the editor's indicator classes.
Bookkeeping(doc) ==
    { i \in 1..Len(doc) :
        \E a \in doc[i].attrs :
            a.name = "class" /\ a.value \in {"media-selected", "dragging"} }

\* C31: no value passed to onChange holds an element that carries the
\* media-selection class or the dragging class.
C31_NoMarkersEmitted ==
    lastOnChange.kind # "none" => Bookkeeping(lastOnChange.value) = {}

\* C35: the selected media element is an element of the editable region.
C35_SelectedMediaAttached ==
    selectedMedia # NoMedia => selectedMedia.attached

\* The step in which the promise of onUpload is fulfilled.
Resolution ==
    /\ upload.pending
    /\ lastAct'.kind = "upload"
    /\ lastAct'.acts = <<"resolved">>

\* C36: when an upload resolves, its URL goes to the element that was
\* selected when the upload started and every other element is left as it
\* is; after the resolution no element carries the selection class unless
\* it is the selected media.
C36_UploadReplacesItsTarget ==
    [][ Resolution
          => /\ Len(dom') = Len(dom)
             /\ \E url \in UploadUrls :
                    \A i \in 1..Len(dom) :
                        dom'[i] = IF /\ upload.target.attached
                                     /\ upload.target.index = i
                                  THEN ReplaceSrc(url, dom[i])
                                  ELSE dom[i]
             /\ \A i \in Marked(dom') :
                    selectedMedia'.attached /\ selectedMedia'.index = i
       ]_vars

\* C32: a ghost element exists if and only if the drag state is Dragging:
\* it is created when the drag starts and removed on release.  (The model
\* holds whether the ghost of dragGhostRef is in document.body, so there is
\* never more than one.)
C32_GhostIffDragging == dragGhost <=> dragState.isDragging

\* C34: a release during a drag is a pure reordering of the children of
\* the region.  Without a resolved target the children are what they were.
\* With one, the region has as many children as before, the children other
\* than the dragged block are the same and in the same order, and the
\* dragged block is the sibling of the target on the resolved side.
C34_DropIsReordering ==
    [][ (PointerReleased /\ dragState.isDragging)
          => LET before == WithoutClass(dom)
                 after == WithoutClass(dom')
                 d == dragState.draggedElement
                 t == dragState.dropTarget
             IN  IF d # <<>> /\ t # <<>> /\ dragState.dropPosition # "none"
                 THEN /\ Len(after) = Len(before)
                      /\ \E j \in 1..Len(after) :
                             /\ after[j] = before[d[1]]
                             /\ RemoveAt(after, j) = RemoveAt(before, d[1])
                             /\ LET k == IF dragState.dropPosition = "before"
                                         THEN j + 1 ELSE j - 1
                                IN  /\ k \in 1..Len(after)
                                    /\ Len(t) = 1
                                    /\ after[k] = before[t[1]]
                 ELSE after = before ]_vars

=============================================================================
